---- MODULE Spec2Model ----
(***************************************************************************)
(* Model of the Aave action provider: the amount codec and account reader  *)
(* of utils.py and the supply / withdraw / borrow / repay / get_portfolio  *)
(* handlers of aave_action_provider.py.                                    *)
(*                                                                         *)
(* Python values are represented as follows.                               *)
(*   str      a sequence of one-character strings                          *)
(*   int      [neg : BOOLEAN, mag : big-endian digit sequence]; the digit  *)
(*            sequence has no leading zero, zero is <<0>>.  Python ints    *)
(*            are unbounded, so 2**256 - 1 and 10**18 are held exactly.    *)
(*   Decimal  [kind : "fin" | "inf", neg, coef : digit sequence, exp]      *)
(*            with the default context (28 digits, ROUND_HALF_EVEN).       *)
(*   a call   [ok |-> TRUE, val |-> v] when it returns v,                  *)
(*            [ok |-> FALSE, exc |-> class, txt |-> str(e)] when it raises *)
(***************************************************************************)
EXTENDS Integers, Sequences, FiniteSets, TLC

\* ------------------------------------------------------------------ bounds
MaxBalance == 2
MaxBase == 1

\* ------------------------------------------------- Python str and int values
DigitChars == <<"0", "1", "2", "3", "4", "5", "6", "7", "8", "9">>

IsDigitChar(c) == \E i \in 1 .. 10 : DigitChars[i] = c

DigitVal(c) == (CHOOSE i \in 1 .. 10 : DigitChars[i] = c) - 1

DigitChar(d) == DigitChars[d + 1]

Max2(a, b) == IF a >= b THEN a ELSE b

Min2(a, b) == IF a <= b THEN a ELSE b

Zeros(n) == [i \in 1 .. n |-> 0]

Raise(cls, text) == [ok |-> FALSE, exc |-> cls, txt |-> text]

Return(v) == [ok |-> TRUE, val |-> v]

StripLeadingZeros(ds) ==
  IF \A i \in 1 .. Len(ds) : ds[i] = 0 THEN <<0>>
  ELSE LET f == CHOOSE i \in 1 .. Len(ds) : ds[i] # 0 /\ \A j \in 1 .. i - 1 : ds[j] = 0
       IN  SubSeq(ds, f, Len(ds))

\* number of trailing zero digits of ds
TrailingZeros(ds) ==
  IF \A i \in 1 .. Len(ds) : ds[i] = 0 THEN Len(ds)
  ELSE LET l == CHOOSE i \in 1 .. Len(ds) : ds[i] # 0 /\ \A j \in i + 1 .. Len(ds) : ds[j] = 0
       IN  Len(ds) - l

NatZero == <<0>>

NatLess(a, b) ==
  \/ Len(a) < Len(b)
  \/ /\ Len(a) = Len(b)
     /\ \E i \in 1 .. Len(a) : a[i] < b[i] /\ \A j \in 1 .. i - 1 : a[j] = b[j]

NatLeq(a, b) == a = b \/ NatLess(a, b)

PadLeft(a, n) == Zeros(n - Len(a)) \o a

\* carry into digit i of a + b (a, b of equal length)
CarryIn(a, b, i) ==
  \E j \in i + 1 .. Len(a) :
    a[j] + b[j] >= 10 /\ \A k \in i + 1 .. j - 1 : a[k] + b[k] = 9

NatAdd(a, b) ==
  LET n == Max2(Len(a), Len(b)) + 1
      x == PadLeft(a, n)
      y == PadLeft(b, n)
  IN  StripLeadingZeros([i \in 1 .. n |->
        (x[i] + y[i] + (IF CarryIn(x, y, i) THEN 1 ELSE 0)) % 10])

\* borrow from digit i of a - b (a, b of equal length)
BorrowIn(a, b, i) ==
  \E j \in i + 1 .. Len(a) :
    a[j] < b[j] /\ \A k \in i + 1 .. j - 1 : a[k] = b[k]

\* a - b for a >= b
NatSub(a, b) ==
  LET n == Len(a)
      y == PadLeft(b, n)
  IN  StripLeadingZeros([i \in 1 .. n |->
        (a[i] - y[i] - (IF BorrowIn(a, y, i) THEN 1 ELSE 0) + 10) % 10])

\* a * 10**n
NatShift(a, n) == IF a = NatZero THEN a ELSE a \o Zeros(n)

RECURSIVE NatMulDigit(_, _)
NatMulDigit(a, k) == IF k = 0 THEN NatZero ELSE NatAdd(a, NatMulDigit(a, k - 1))

\* divmod(a, b) for b > 0, by long division; m[d + 1] = b * d
RECURSIVE LongDiv(_, _, _, _, _)
LongDiv(a, m, i, q, r) ==
  IF i > Len(a) THEN [quo |-> StripLeadingZeros(q), rem |-> r]
  ELSE LET cur == StripLeadingZeros(Append(r, a[i]))
           k == CHOOSE d \in 0 .. 9 : NatLeq(m[d + 1], cur) /\ NatLess(cur, m[d + 2])
           r2 == NatSub(cur, m[k + 1])
           q2 == Append(q, k)
       IN  IF Len(r2) > 0 /\ Len(q2) > 0 THEN LongDiv(a, m, i + 1, q2, r2) ELSE <<>>

\* the value of a digit sequence of at most 8 digits
SmallVal(ds) ==
  LET v[i \in 0 .. Len(ds)] == IF i = 0 THEN 0 ELSE 10 * v[i - 1] + ds[i]
  IN  v[Len(ds)]

RECURSIVE NatFromInt(_)
NatFromInt(n) == IF n < 10 THEN <<n>> ELSE Append(NatFromInt(n \div 10), n % 10)

\* divmod(a, b) for a divisor b of at most 8 digits: the running remainder
\* stays below 10 * b
ShortDiv(a, b) ==
  LET m == SmallVal(b)
      r[i \in 0 .. Len(a)] == IF i = 0 THEN 0 ELSE (10 * r[i - 1] + a[i]) % m
  IN  [quo |-> StripLeadingZeros([i \in 1 .. Len(a) |-> (10 * r[i - 1] + a[i]) \div m]),
       rem |-> NatFromInt(r[Len(a)])]

NatDivMod(a, b) ==
  IF Len(b) <= 8 THEN ShortDiv(a, b)
  ELSE LET m == [d \in 1 .. 11 |-> NatMulDigit(b, d - 1)]
       IN  LongDiv(a, m, 1, <<>>, NatZero)

MkInt(neg, mag) == [neg |-> neg /\ mag # NatZero, mag |-> mag]

IntOf(n) == MkInt(FALSE, NatFromInt(n))

IntLess(x, y) ==
  IF x.neg # y.neg THEN x.neg
  ELSE IF x.neg THEN NatLess(y.mag, x.mag)
  ELSE NatLess(x.mag, y.mag)

IntAdd(x, y) ==
  IF x.neg = y.neg THEN MkInt(x.neg, NatAdd(x.mag, y.mag))
  ELSE IF NatLess(x.mag, y.mag) THEN MkInt(y.neg, NatSub(y.mag, x.mag))
  ELSE MkInt(x.neg, NatSub(x.mag, y.mag))

\* x * (10 ** n)
IntShift(x, n) == MkInt(x.neg, NatShift(x.mag, n))

\* str(int)
IntStr(x) ==
  (IF x.neg THEN <<"-">> ELSE <<>>) \o [i \in 1 .. Len(x.mag) |-> DigitChar(x.mag[i])]

AllDigits(s) == s # <<>> /\ \A i \in 1 .. Len(s) : IsDigitChar(s[i])

DigitsOf(s) == [i \in 1 .. Len(s) |-> DigitVal(s[i])]

\* int(s) for s over the characters of AmountAlphabet: an optional sign
\* followed by at least one digit, ValueError otherwise
PyInt(s) ==
  LET signed == s # <<>> /\ Head(s) \in {"+", "-"}
      body == IF signed THEN Tail(s) ELSE s
  IN  IF AllDigits(body)
      THEN Return(MkInt(signed /\ Head(s) = "-", StripLeadingZeros(DigitsOf(body))))
      ELSE Raise("ValueError", <<"invalid literal for int()">>)

\* ------------------------------------------------------------ decimal.Decimal
DecimalPrec == 28

Dec(neg, coef, exp) == [kind |-> "fin", neg |-> neg, coef |-> coef, exp |-> exp]

\* Decimal("Infinity") / Decimal('inf')
DecInfinity == [kind |-> "inf", neg |-> FALSE, coef |-> NatZero, exp |-> 0]

\* Decimal(n) for an int n
DecFromInt(x) == Dec(x.neg, x.mag, 0)

DecIsInf(x) == x.kind = "inf"

\* the coefficient digits ds cut to their first keep digits, ROUND_HALF_EVEN
RoundHalfEven(ds, keep) ==
  LET tailZero == \A i \in keep + 2 .. Len(ds) : ds[i] = 0
      half == keep < Len(ds) /\ ds[keep + 1] = 5 /\ tailZero
      above == keep < Len(ds) /\ (ds[keep + 1] > 5 \/ (ds[keep + 1] = 5 /\ ~tailZero))
      odd == keep > 0 /\ ds[keep] % 2 = 1
      up(base) == IF above \/ (half /\ odd) THEN NatAdd(base, <<1>>) ELSE base
  IN  up(StripLeadingZeros(SubSeq(ds, 1, keep)))

\* Decimal._fix: round a result to the context precision
DecFix(x) ==
  IF Len(x.coef) <= DecimalPrec THEN x
  ELSE LET drop == Len(x.coef) - DecimalPrec
           fit(r) == IF Len(r) > DecimalPrec
                     THEN Dec(x.neg, SubSeq(r, 1, DecimalPrec), x.exp + drop + 1)
                     ELSE Dec(x.neg, r, x.exp + drop)
       IN  fit(RoundHalfEven(x.coef, DecimalPrec))

\* Decimal._rescale(exp, ROUND_HALF_EVEN)
DecRescale(x, e) ==
  IF x.coef = NatZero THEN Dec(x.neg, NatZero, e)
  ELSE IF x.exp >= e THEN Dec(x.neg, NatShift(x.coef, x.exp - e), e)
  ELSE LET digits == Len(x.coef) + x.exp - e
       IN  IF digits < 0 THEN Dec(x.neg, NatZero, e)
           ELSE Dec(x.neg, RoundHalfEven(x.coef, digits), e)

\* while exp < ideal_exp and coeff % 10 == 0: coeff //= 10; exp += 1
TrimToIdeal(coef, exp, ideal) ==
  LET k == Min2(Max2(ideal - exp, 0), Min2(TrailingZeros(coef), Len(coef) - 1))
  IN  [coef |-> SubSeq(coef, 1, Len(coef) - k), exp |-> exp + k]

IsPow10(ds) == ds[1] = 1 /\ \A i \in 2 .. Len(ds) : ds[i] = 0

\* Decimal.__truediv__ for finite x and finite non-zero y, as _pydecimal
\* computes it
DecDivGeneral(x, y) ==
  LET neg == x.neg # y.neg
      ideal == x.exp - y.exp
      shift == Len(y.coef) - Len(x.coef) + DecimalPrec + 1
      exp0 == x.exp - y.exp - shift
      trimmed(t) == Dec(neg, t.coef, t.exp)
      \* result is not exact: adjust to ensure correct rounding
      sticky(quo) == IF quo[Len(quo)] % 5 = 0 THEN NatAdd(quo, <<1>>) ELSE quo
      rounded(qr) == DecFix(IF qr.rem # NatZero THEN Dec(neg, sticky(qr.quo), exp0)
                            ELSE trimmed(TrimToIdeal(qr.quo, exp0, ideal)))
  IN  IF x.coef = NatZero THEN Dec(neg, NatZero, ideal)
      ELSE rounded(NatDivMod(NatShift(x.coef, Max2(shift, 0)),
                             NatShift(y.coef, Max2(0 - shift, 0))))

\* Decimal.__truediv__.  A divisor 10**k with a dividend of at most
\* DecimalPrec digits divides exactly: the quotient keeps the dividend's digits
\* and loses trailing zeros down to the ideal exponent, which is what the
\* general computation returns.
DecDiv(x, y) ==
  IF x.coef # NatZero /\ IsPow10(y.coef) /\ Len(x.coef) <= DecimalPrec
  THEN LET k == Len(y.coef) - 1
           t == Min2(k, TrailingZeros(x.coef))
       IN  Dec(x.neg # y.neg, SubSeq(x.coef, 1, Len(x.coef) - t), x.exp - y.exp - k + t)
  ELSE DecDivGeneral(x, y)

\* Decimal * int, for the int 10 ** n
DecMulPow10(x, n) == DecFix(Dec(x.neg, NatShift(x.coef, n), x.exp))

\* int(Decimal): truncation toward zero
DecToInt(x) ==
  IF x.exp >= 0 THEN MkInt(x.neg, NatShift(x.coef, x.exp))
  ELSE IF 0 - x.exp >= Len(x.coef) THEN MkInt(FALSE, NatZero)
  ELSE MkInt(x.neg, SubSeq(x.coef, 1, Len(x.coef) + x.exp))

\* exact comparison x < y (Decimal against Decimal, int or float operand
\* converted exactly)
DecLess(x, y) ==
  IF DecIsInf(x) \/ DecIsInf(y)
  THEN IF DecIsInf(x) /\ DecIsInf(y) THEN x.neg /\ ~y.neg
       ELSE IF DecIsInf(x) THEN x.neg ELSE ~y.neg
  ELSE LET m == Min2(x.exp, y.exp)
           a == MkInt(x.neg, NatShift(x.coef, x.exp - m))
           b == MkInt(y.neg, NatShift(y.coef, y.exp - m))
       IN  IntLess(a, b)

DecEq(x, y) == ~DecLess(x, y) /\ ~DecLess(y, x)

DecGreater(x, y) == DecLess(y, x)

DecGeq(x, y) == ~DecLess(x, y)

NatChars(ds) == [i \in 1 .. Len(ds) |-> DigitChar(ds[i])]

ZeroChars(n) == [i \in 1 .. n |-> "0"]

\* "%+d" % n
SignedStr(n) ==
  IF n < 0 THEN <<"-">> \o NatChars(NatFromInt(0 - n)) ELSE <<"+">> \o NatChars(NatFromInt(n))

\* Decimal.__str__
DecStr(x) ==
  IF DecIsInf(x) THEN (IF x.neg THEN <<"-">> ELSE <<>>) \o <<"I", "n", "f", "i", "n", "i", "t", "y">>
  ELSE LET n == Len(x.coef)
           leftdigits == x.exp + n
           dotplace == IF x.exp <= 0 /\ leftdigits > -6 THEN leftdigits ELSE 1
           digs == NatChars(x.coef)
           intpart == IF dotplace <= 0 THEN <<"0">>
                      ELSE IF dotplace >= n THEN digs \o ZeroChars(dotplace - n)
                      ELSE SubSeq(digs, 1, dotplace)
           fracpart == IF dotplace <= 0 THEN <<".">> \o ZeroChars(0 - dotplace) \o digs
                       ELSE IF dotplace >= n THEN <<>>
                       ELSE <<".">> \o SubSeq(digs, dotplace + 1, n)
           exppart == IF leftdigits = dotplace THEN <<>>
                      ELSE <<"E">> \o SignedStr(leftdigits - dotplace)
       IN  (IF x.neg THEN <<"-">> ELSE <<>>) \o intpart \o fracpart \o exppart

\* format(x, ".<places>f"): Decimal.__format__ with type f
DecFormatF(x, places) ==
  IF DecIsInf(x) THEN DecStr(x)
  ELSE LET point(digs) ==
             SubSeq(digs, 1, Len(digs) - places)
               \o (IF places > 0
                   THEN <<".">> \o SubSeq(digs, Len(digs) - places + 1, Len(digs)) ELSE <<>>)
           fixed(r) ==
             (IF r.neg THEN <<"-">> ELSE <<>>)
               \o point(NatChars(PadLeft(r.coef, Max2(Len(r.coef), places + 1))))
       IN  fixed(DecRescale(x, 0 - places))

IndexOfE(s) ==
  IF \E i \in 1 .. Len(s) : s[i] \in {"e", "E"}
  THEN CHOOSE i \in 1 .. Len(s) : s[i] \in {"e", "E"} /\ \A j \in 1 .. i - 1 : s[j] \notin {"e", "E"}
  ELSE 0

IndexOfDot(s) ==
  IF \E i \in 1 .. Len(s) : s[i] = "."
  THEN CHOOSE i \in 1 .. Len(s) : s[i] = "." /\ \A j \in 1 .. i - 1 : s[j] # "."
  ELSE 0

\* Decimal(s) for s over the characters of AmountAlphabet:
\* [sign] (digits [. [digits]] | . digits) [e [sign] digits],
\* decimal.InvalidOperation otherwise
DecParse(s) ==
  LET signed == s # <<>> /\ Head(s) \in {"+", "-"}
      neg == signed /\ Head(s) = "-"
      value(ipart, fpart, e) ==
        IF /\ \A i \in 1 .. Len(ipart) : IsDigitChar(ipart[i])
           /\ \A i \in 1 .. Len(fpart) : IsDigitChar(fpart[i])
           /\ Len(ipart) + Len(fpart) > 0
           /\ e.ok /\ Len(e.val.mag) <= 2
        THEN Return(Dec(neg, StripLeadingZeros(DigitsOf(ipart \o fpart)),
                        (IF e.val.neg THEN -1 ELSE 1) * SmallVal(e.val.mag) - Len(fpart)))
        ELSE Raise("InvalidOperation", <<"[<class 'decimal.ConversionSyntax'>]">>)
      mantissa(mant, id, e) ==
        IF id = 0 THEN value(mant, <<>>, e)
        ELSE value(SubSeq(mant, 1, id - 1), SubSeq(mant, id + 1, Len(mant)), e)
      number(body, ie) ==
        IF ie = 0 THEN mantissa(body, IndexOfDot(body), PyInt(<<"0">>))
        ELSE mantissa(SubSeq(body, 1, ie - 1), IndexOfDot(SubSeq(body, 1, ie - 1)),
                      PyInt(SubSeq(body, ie + 1, Len(body))))
  IN  IF signed THEN number(Tail(s), IndexOfE(Tail(s))) ELSE number(s, IndexOfE(s))

\* ----------------------------------------------------------------- constants
None == "None"

SUPPORTED_NETWORKS == {"base-mainnet", "base-sepolia"}

\* supports_network with the test of the network id left out
supports_any_evm_network(network) == network.protocol_family = "evm"

supports_network(network) ==
  network.protocol_family = "evm" /\ network.network_id \in SUPPORTED_NETWORKS

\* the table with the base-mainnet address standing in for an asset that
\* base-sepolia lacks
ASSET_ADDRESSES_WITH_DEFAULT ==
  [n \in SUPPORTED_NETWORKS |->
     [a \in {"weth", "usdc", "cbeth", "wsteth"} |->
        CASE a = "weth" -> "0x4200000000000000000000000000000000000006"
          [] a = "usdc" -> IF n = "base-mainnet"
                           THEN "0x833589fCD6eDb6E08f4c7C32D4f71b54bdA02913"
                           ELSE "0x036CbD53842c5426634e7929541eC2318f3dCF7e"
          [] a = "cbeth" -> "0x2Ae3F1Ec7F1F5012CFEab0185bfc7aa3cf0DEc22"
          [] a = "wsteth" -> "0xc1CBa3fCea344f92D9239c08C0568f6F2F0ee452"]]

ASSET_ADDRESSES ==
  [n \in SUPPORTED_NETWORKS |->
     IF n = "base-mainnet"
     THEN [a \in {"weth", "usdc", "cbeth", "wsteth"} |->
             CASE a = "weth" -> "0x4200000000000000000000000000000000000006"
               [] a = "usdc" -> "0x833589fCD6eDb6E08f4c7C32D4f71b54bdA02913"
               [] a = "cbeth" -> "0x2Ae3F1Ec7F1F5012CFEab0185bfc7aa3cf0DEc22"
               [] a = "wsteth" -> "0xc1CBa3fCea344f92D9239c08C0568f6F2F0ee452"]
     ELSE [a \in {"weth", "usdc"} |->
             CASE a = "weth" -> "0x4200000000000000000000000000000000000006"
               [] a = "usdc" -> "0x036CbD53842c5426634e7929541eC2318f3dCF7e"]]

POOL_ADDRESSES ==
  [n \in SUPPORTED_NETWORKS |->
     IF n = "base-mainnet" THEN "0xa238dd80c259a72e81d7e4664a9801593f98d1c5"
     ELSE "0x6Ae43d3271ff6888e7Fc43Fd7321a503ff738951"]

UI_POOL_DATA_PROVIDER_ADDRESSES ==
  [n \in SUPPORTED_NETWORKS |->
     IF n = "base-mainnet" THEN "0xA238Dd80C259a72e81d7e4664a9801593F98d1c5"
     ELSE "0xF8AEBE0f34E563E56C6F5f3bF44D31f2576a2Dfa"]

\* Web3.to_checksum_address on the addresses the model uses (EIP-55 form)
ToChecksumAddress(a) ==
  CASE a = "0xa238dd80c259a72e81d7e4664a9801593f98d1c5"
         -> "0xA238Dd80C259a72e81d7e4664a9801593F98d1c5"
    [] a = "0xF8AEBE0f34E563E56C6F5f3bF44D31f2576a2Dfa"
         -> "0xf8aeBE0F34e563E56C6F5F3BF44D31f2576a2dfA"
    [] OTHER -> a

\* Literal["weth", "usdc", "cbeth", "wsteth"]
AssetIdLiteral == {"weth", "usdc", "cbeth", "wsteth"}

\* 2**256 - 1
Uint256Max ==
  MkInt(FALSE, <<1, 1, 5, 7, 9, 2, 0, 8, 9, 2, 3, 7, 3, 1, 6, 1, 9, 5, 4, 2,
                 3, 5, 7, 0, 9, 8, 5, 0, 0, 8, 6, 8, 7, 9, 0, 7, 8, 5, 3, 2,
                 6, 9, 9, 8, 4, 6, 6, 5, 6, 4, 0, 5, 6, 4, 0, 3, 9, 4, 5, 7,
                 5, 8, 4, 0, 0, 7, 9, 1, 3, 1, 2, 9, 6, 3, 9, 9, 3, 5>>)

MaxStr == <<"m", "a", "x">>

\* 10 ** n
Pow10(n) == MkInt(FALSE, <<1>> \o Zeros(n))

\* -------------------------------------------------------------- amount codec
\* s.rstrip(c)
RStrip(s, c) ==
  IF \A i \in 1 .. Len(s) : s[i] = c THEN <<>>
  ELSE LET l == CHOOSE i \in 1 .. Len(s) : s[i] # c /\ \A j \in i + 1 .. Len(s) : s[j] = c
       IN  SubSeq(s, 1, l)

\* number of parts of s.split('.')
DotCount(s) == Cardinality({i \in 1 .. Len(s) : s[i] = "."})

\* fraction[:decimals] or fraction.ljust(decimals, '0')
FitFraction(fraction, decimals) ==
  IF Len(fraction) > decimals THEN SubSeq(fraction, 1, decimals)
  ELSE fraction \o ZeroChars(decimals - Len(fraction))

InvalidAmountFormat(amount) ==
  Raise("ValueError", <<"Invalid amount format: ">> \o amount)

\* the conversion with the "max" value scaled like an amount
format_amount_scaling_max(amount, decimals) ==
  IF amount = MaxStr THEN Return(IntShift(Uint256Max, decimals))
  ELSE InvalidAmountFormat(amount)

format_amount_with_decimals(amount, decimals) ==
  IF amount = MaxStr THEN Return(Uint256Max)
  ELSE IF IndexOfE(amount) # 0
  THEN LET scaled(d) == IF d.ok THEN Return(DecToInt(DecMulPow10(d.val, decimals))) ELSE d
       IN  scaled(DecParse(amount))
  ELSE IF DotCount(amount) = 0
  THEN LET whole(w) ==
             IF w.ok THEN Return(IntShift(w.val, decimals)) ELSE InvalidAmountFormat(amount)
       IN  whole(PyInt(amount))
  ELSE IF DotCount(amount) = 1
  THEN LET parts(w, f) ==
             IF w.ok /\ f.ok THEN Return(IntAdd(IntShift(w.val, decimals), f.val))
             ELSE InvalidAmountFormat(amount)
           split(dot) ==
             parts(PyInt(SubSeq(amount, 1, dot - 1)),
                   PyInt(FitFraction(SubSeq(amount, dot + 1, Len(amount)), decimals)))
       IN  split(IndexOfDot(amount))
  ELSE InvalidAmountFormat(amount)

format_amount_from_decimals(amount, decimals) ==
  IF amount = IntOf(0) THEN <<"0">>
  ELSE LET strip(s) == IF IndexOfDot(s) # 0 THEN RStrip(RStrip(s, "0"), ".") ELSE s
       IN  strip(DecStr(DecDiv(DecFromInt(amount), DecFromInt(Pow10(decimals)))))

\* ----------------------------------------------------------- account reader
\* the account data with the health factor divided whatever its sign
AccountDataAlwaysDivided(raw) ==
  [totalCollateralBase |-> DecDiv(DecFromInt(raw[1]), DecFromInt(Pow10(18))),
   totalDebtBase |-> DecDiv(DecFromInt(raw[2]), DecFromInt(Pow10(18))),
   availableBorrowsBase |-> DecDiv(DecFromInt(raw[3]), DecFromInt(Pow10(18))),
   currentLiquidationThreshold |-> DecDiv(DecFromInt(raw[4]), DecFromInt(Pow10(4))),
   ltv |-> DecDiv(DecFromInt(raw[5]), DecFromInt(Pow10(4))),
   healthFactor |-> DecDiv(DecFromInt(raw[6]), DecFromInt(Pow10(18)))]

\* the dictionary get_user_account_data builds from the six raw integers of
\* getUserAccountData
AccountData(raw) ==
  [totalCollateralBase |-> DecDiv(DecFromInt(raw[1]), DecFromInt(Pow10(18))),
   totalDebtBase |-> DecDiv(DecFromInt(raw[2]), DecFromInt(Pow10(18))),
   availableBorrowsBase |-> DecDiv(DecFromInt(raw[3]), DecFromInt(Pow10(18))),
   currentLiquidationThreshold |-> DecDiv(DecFromInt(raw[4]), DecFromInt(Pow10(4))),
   ltv |-> DecDiv(DecFromInt(raw[5]), DecFromInt(Pow10(4))),
   healthFactor |-> IF IntLess(IntOf(0), raw[6])
                    THEN DecDiv(DecFromInt(raw[6]), DecFromInt(Pow10(18)))
                    ELSE DecInfinity]

\* ------------------------------------------------------- requests and ledger
Procs == {"a", "b"}

Ops == {"supply", "withdraw", "borrow", "repay", "get_portfolio"}

WalletAddress == "0x1111111111111111111111111111111111111111"

OtherAddress == "0x2222222222222222222222222222222222222222"

NetworkChoices == {"base-mainnet", "base-sepolia", "ethereum"}

AssetChoices == {"weth", "usdc", "cbeth", "dai"}

AmountChoices ==
  {<<"1">>, <<"2">>, <<"0", ".", "5">>, MaxStr, <<"-", "1">>, <<"1", "e", "0">>, <<"x">>}

MoneyOps == Ops \ {"get_portfolio"}

\* the arguments of one call of an action, schema defaults filled in
Requests ==
  [op : MoneyOps, network : {"base-mainnet"}, asset_id : {"weth", "usdc"},
   amount : AmountChoices, beneficiary : {None},
   interest_rate_mode : {2}, referral_code : {0}]
  \cup
  [op : MoneyOps, network : {"base-mainnet"}, asset_id : {"cbeth", "dai"},
   amount : {<<"1">>, MaxStr}, beneficiary : {None, OtherAddress},
   interest_rate_mode : {2}, referral_code : {0}]
  \cup
  [op : MoneyOps, network : {"base-sepolia", "ethereum"}, asset_id : {"usdc", "cbeth"},
   amount : {<<"1">>}, beneficiary : {None},
   interest_rate_mode : {2}, referral_code : {0}]
  \cup
  [op : {"borrow", "repay"}, network : {"base-mainnet"}, asset_id : {"weth"},
   amount : {<<"1">>}, beneficiary : {None}, interest_rate_mode : {1}, referral_code : {0}]
  \cup
  [op : {"get_portfolio"}, network : NetworkChoices, asset_id : {"weth"},
   amount : {<<"1">>}, beneficiary : {None, OtherAddress},
   interest_rate_mode : {2}, referral_code : {0}]

\* what the ledger client can answer
\* decimals(): a token without fractional units, USDC, WETH and cbETH
DecimalsReads == {0, 6, 18}

\* balanceOf(): whole tokens at each scale, and 0.00000000015 of an
\* 18-decimals token
BalanceReads ==
  {IntShift(IntOf(k), e) : k \in 0 .. MaxBalance, e \in DecimalsReads}
    \cup {IntShift(IntOf(15), 7), Uint256Max}

HealthRaws == {IntOf(0), IntShift(IntOf(105), 16), IntShift(IntOf(11), 17), IntShift(IntOf(2), 18)}

AccountReads ==
  {<<IntShift(IntOf(c), 18), IntShift(IntOf(d), 18), IntShift(IntOf(a), 18),
     IntOf(8000), IntOf(7500), h>> :
     c \in 0 .. MaxBase, d \in 0 .. 1, a \in 0 .. MaxBase, h \in HealthRaws}

SymbolOf(asset_address) ==
  CASE asset_address = "0x4200000000000000000000000000000000000006" -> "WETH"
    [] asset_address = "0x833589fCD6eDb6E08f4c7C32D4f71b54bdA02913" -> "USDC"
    [] asset_address = "0x036CbD53842c5426634e7929541eC2318f3dCF7e" -> "USDC"
    [] asset_address = "0x2Ae3F1Ec7F1F5012CFEab0185bfc7aa3cf0DEc22" -> "cbETH"
    [] OTHER -> "wstETH"

StatusReads == {0, 1}

LedgerError == Raise("Exception", <<"ledger call failed">>)

TxHashes == <<"0xhash1", "0xhash2">>

\* ------------------------------------------------------------------- state
VARIABLES
  callers,   \* the processes that invoke actions
  pc,        \* pc[p]: the ledger interaction the invocation of p is about to make
  req,       \* req[p]: the validated arguments and the network of the invocation
  loc,       \* loc[p]: the local variables of the handler
  calls,     \* calls[p]: the ledger-client calls the invocation has made, in order
  result,    \* result[p]: what the invocation handed back to its caller
  calc,      \* a call of a helper of utils.py on its own: arguments and outcome
  ledger     \* the wallet's transactions that have a receipt, where followed

vars == <<callers, pc, req, loc, calls, result, calc, ledger>>

NoRequest ==
  [op |-> "supply", network |-> "base-mainnet", asset_id |-> "weth", amount |-> <<"1">>,
   beneficiary |-> None, interest_rate_mode |-> 2, referral_code |-> 0]

\* account_data before the handler has read it
NoAccountData ==
  [totalCollateralBase |-> Dec(FALSE, NatZero, 0), totalDebtBase |-> Dec(FALSE, NatZero, 0),
   availableBorrowsBase |-> Dec(FALSE, NatZero, 0),
   currentLiquidationThreshold |-> Dec(FALSE, NatZero, 0), ltv |-> Dec(FALSE, NatZero, 0),
   healthFactor |-> DecInfinity]

NoLocals ==
  [pool_address |-> "", asset_address |-> "", account |-> "", decimals |-> 0,
   amount_atomic |-> IntOf(0), wallet_balance |-> IntOf(0), account_data |-> NoAccountData,
   current_health |-> DecInfinity, new_health |-> DecInfinity,
   approve_tx_hash |-> "", tx_hash |-> ""]

NoResult == [kind |-> "none", value |-> <<>>]

\* the ledger is not followed: approvals and protocol calls are known by
\* their receipts only
NoLedger == [tracked |-> FALSE, txs |-> <<>>]

\* a Network value of the wallet provider: protocol_family and network_id
NoNetwork == [protocol_family |-> "none", network_id |-> "none"]

\* no helper call under way
NoCalc ==
  [fn |-> "none", amount |-> <<>>, decimals |-> 0, atomic |-> IntOf(0),
   network |-> NoNetwork, ledger |-> <<>>, reads |-> 0, given |-> <<>>, out |-> <<>>]

Returned(msg) == [kind |-> "returned", value |-> msg]

Init ==
  /\ callers = {"a"}
  /\ pc = [p \in Procs |-> "idle"]
  /\ req = [p \in Procs |-> NoRequest]
  /\ loc = [p \in Procs |-> NoLocals]
  /\ calls = [p \in Procs |-> <<>>]
  /\ result = [p \in Procs |-> NoResult]
  /\ calc = NoCalc
  /\ ledger = NoLedger

\* ---------------------------------------------------------- ledger-client log
ReadCall(fn, target, args, ok) ==
  [kind |-> "read", fn |-> fn, to |-> target, args |-> args, ok |-> ok, status |-> -1]

SendCall(fn, target, args, ok) ==
  [kind |-> "send", fn |-> fn, to |-> target, args |-> args, ok |-> ok, status |-> -1]

WaitCall(fn, target, args, ok, status) ==
  [kind |-> "wait", fn |-> fn, to |-> target, args |-> args, ok |-> ok, status |-> status]

\* ------------------------------------------------------------ handler frames
BoundaryText(op) ==
  CASE op = "supply" -> " supplying to Aave: "
    [] op = "withdraw" -> " withdrawing from Aave: "
    [] op = "borrow" -> " borrowing from Aave: "
    [] op = "repay" -> " repaying to Aave: "
    [] op = "get_portfolio" -> " getting portfolio details from Aave: "

\* an exception that reaches the handler's outermost frame leaves the handler
\* unhandled (the frame without its except clause)
BoundaryUncaught(op, e) == [kind |-> "raised", value |-> e.txt]

\* the outermost  except Exception as e: return f"Error ... Aave: {e!s}"
Boundary(op, e) == Returned(<<"Error", BoundaryText(op)>> \o e.txt)

\* supply and repay with the balance check moved behind the approval
FlowBalanceAfterApproval(op, amount) ==
  CASE op \in {"supply", "repay"} ->
         <<"decimals", "health_before", "approve_send", "approve_wait", "balance",
           "execute_send", "execute_wait", "health_after", "symbol">>
    [] op = "withdraw" ->
         <<"decimals", "health_before", "account_before",
           "execute_send", "execute_wait", "health_after", "symbol">>
    [] op = "borrow" ->
         <<"decimals", "account_before", "symbol_check",
           "execute_send", "execute_wait", "health_after", "symbol">>
    [] op = "get_portfolio" -> <<"portfolio_read">>

\* repay without the  if validated_args.amount != "max"  around its balance check
FlowRepayBalanceAlways(op, amount) ==
  CASE op \in {"supply", "repay"} ->
         <<"decimals", "balance", "health_before", "approve_send", "approve_wait",
           "execute_send", "execute_wait", "health_after", "symbol">>
    [] op = "withdraw" ->
         <<"decimals", "health_before", "account_before",
           "execute_send", "execute_wait", "health_after", "symbol">>
    [] op = "borrow" ->
         <<"decimals", "account_before", "symbol_check",
           "execute_send", "execute_wait", "health_after", "symbol">>
    [] op = "get_portfolio" -> <<"portfolio_read">>

\* the ledger interactions of a handler, in program order
\* the steps with borrow going on to its account read without waiting for
\* the receipt
FlowWithoutReceiptWait(op, amount) ==
  CASE op = "supply" ->
         <<"decimals", "balance", "health_before", "approve_send", "approve_wait",
           "execute_send", "execute_wait", "health_after", "symbol">>
    [] op = "withdraw" ->
         <<"decimals", "health_before", "account_before",
           "execute_send", "execute_wait", "health_after", "symbol">>
    [] op = "borrow" ->
         <<"decimals", "account_before", "symbol_check",
           "execute_send", "health_after", "symbol">>
    [] op = "repay" ->
         (IF amount # MaxStr THEN <<"decimals", "balance">> ELSE <<"decimals">>)
           \o <<"health_before", "approve_send", "approve_wait",
                "execute_send", "execute_wait", "health_after", "symbol">>
    [] op = "get_portfolio" -> <<"portfolio_read">>

Flow(op, amount) ==
  CASE op = "supply" ->
         <<"decimals", "balance", "health_before", "approve_send", "approve_wait",
           "execute_send", "execute_wait", "health_after", "symbol">>
    [] op = "withdraw" ->
         <<"decimals", "health_before", "account_before",
           "execute_send", "execute_wait", "health_after", "symbol">>
    [] op = "borrow" ->
         <<"decimals", "account_before", "symbol_check",
           "execute_send", "execute_wait", "health_after", "symbol">>
    [] op = "repay" ->
         (IF amount # MaxStr THEN <<"decimals", "balance">> ELSE <<"decimals">>)
           \o <<"health_before", "approve_send", "approve_wait",
                "execute_send", "execute_wait", "health_after", "symbol">>
    [] op = "get_portfolio" -> <<"portfolio_read">>

After(op, amount, step) ==
  LET f == Flow(op, amount)
      i == CHOOSE j \in 1 .. Len(f) : f[j] = step
  IN  IF i = Len(f) THEN "done" ELSE f[i + 1]

\* the ledger after the ledger-client call that was just made: a transaction
\* whose receipt was returned is on the ledger with the status of the receipt
LedgerAfter(p, newLoc, newCalls) ==
  LET c == newCalls[Len(newCalls)]
  IN  IF ledger.tracked /\ c.kind = "wait" /\ c.ok
      THEN [ledger EXCEPT !.txs = Append(@, [fn |-> c.fn, amount |-> newLoc.amount_atomic,
                                             by |-> p, status |-> c.status])]
      ELSE ledger

\* the invocation of p returns r to its caller
Finish(p, r, newLoc, newCalls) ==
  /\ pc' = [pc EXCEPT ![p] = "done"]
  /\ result' = [result EXCEPT ![p] = r]
  /\ loc' = [loc EXCEPT ![p] = newLoc]
  /\ calls' = [calls EXCEPT ![p] = newCalls]
  /\ ledger' = LedgerAfter(p, newLoc, newCalls)
  /\ UNCHANGED <<callers, req, calc>>

\* the invocation of p goes on to its next ledger interaction
Goto(p, step, newLoc, newCalls) ==
  /\ pc' = [pc EXCEPT ![p] = step]
  /\ loc' = [loc EXCEPT ![p] = newLoc]
  /\ calls' = [calls EXCEPT ![p] = newCalls]
  /\ ledger' = LedgerAfter(p, newLoc, newCalls)
  /\ UNCHANGED <<callers, req, result, calc>>

\* the handler going back to the wait for the approval receipt until the
\* receipt reports status 1
ContinueRetrying(p, step, newLoc, newCalls) ==
  Goto(p,
       IF step = "approve_wait" /\ newCalls[Len(newCalls)].status # 1 THEN step
       ELSE After(req[p].op, req[p].amount, step),
       newLoc, newCalls)

\* the handler passing over the approval when the ledger already holds a
\* confirmed approval of the same amount by the same caller
ContinueSkippingApproval(p, step, newLoc, newCalls) ==
  LET next == After(req[p].op, req[p].amount, step)
      approved == \E k \in DOMAIN ledger.txs :
                    /\ ledger.txs[k].fn = "approve" /\ ledger.txs[k].by = p
                    /\ ledger.txs[k].amount = newLoc.amount_atomic
                    /\ ledger.txs[k].status = 1
  IN  Goto(p, IF next = "approve_send" /\ approved THEN "execute_send" ELSE next,
           newLoc, newCalls)

Continue(p, step, newLoc, newCalls) ==
  Goto(p, After(req[p].op, req[p].amount, step), newLoc, newCalls)

\* ------------------------------------------------------------- pure helpers
\* float 1.1, exactly
Float_1_1 ==
  Dec(FALSE, <<1, 1, 0, 0, 0, 0, 0, 0, 0, 0, 0, 0, 0, 0, 0, 0, 0, 8, 8, 8, 1, 7, 8, 4, 1, 9,
               7, 0, 0, 1, 2, 5, 2, 3, 2, 3, 3, 8, 9, 0, 5, 3, 3, 4, 4, 7, 2, 6, 5, 6, 2, 5>>,
      -51)

\* the wallet address whatever was given
AlwaysWallet(x) == WalletAddress

\* x or wallet_provider.get_address(): None and the empty string are falsy
OrWallet(x) == IF x = None \/ x = "" THEN WalletAddress ELSE x

\* contract.encode_abi(fn, args): the encoder accepts an amount only in the
\* uint256 range
EncodeAbi(fn, args, amount) ==
  IF ~amount.neg /\ ~IntLess(Uint256Max, amount)
  THEN Return([fn |-> fn, args |-> args])
  ELSE Raise("Web3ValidationError",
             <<"Could not identify the intended function with name ", fn>>)

\* an approval of the unlimited allowance whatever the amount
ApproveArgsUnlimited(l) == <<l.pool_address, Uint256Max>>

\* approve_token(wallet_provider, asset_address, pool_address, amount_atomic):
\* the arguments of approve(spender, amount)
ApproveArgs(l) == <<l.pool_address, l.amount_atomic>>

ExecuteArgs(r, l) ==
  CASE r.op = "supply" ->
         <<l.asset_address, l.amount_atomic, OrWallet(r.beneficiary), r.referral_code>>
    [] r.op = "withdraw" ->
         <<l.asset_address, l.amount_atomic, OrWallet(r.beneficiary)>>
    [] r.op = "borrow" ->
         <<l.asset_address, l.amount_atomic, r.interest_rate_mode, r.referral_code,
           OrWallet(r.beneficiary)>>
    [] r.op = "repay" ->
         <<l.asset_address, l.amount_atomic, r.interest_rate_mode, OrWallet(r.beneficiary)>>

\* the balance check passed over for the "max" amount
InsufficientBalanceUnlessMax(wallet_balance, amount_atomic) ==
  amount_atomic # Uint256Max /\ IntLess(wallet_balance, amount_atomic)

\* wallet_balance < amount_atomic
InsufficientBalance(wallet_balance, amount_atomic) == IntLess(wallet_balance, amount_atomic)

InsufficientBalanceMessage(r, wallet_balance, decimals) ==
  <<"Error", ": Insufficient balance. You have ">>
    \o format_amount_from_decimals(wallet_balance, decimals)
    \o <<" ", r.asset_id, ", but trying to ", r.op, " ">> \o r.amount

\* has_borrows = account_data["totalDebtBase"] > 0
HasBorrows(account_data) == DecGreater(account_data.totalDebtBase, DecFromInt(IntOf(0)))

\* the debt check without its  validated_args.amount == "max"
UnsafeMaxWithdrawAnyAmount(account_data, amount) == HasBorrows(account_data)

\* has_borrows and validated_args.amount == "max"
UnsafeMaxWithdraw(account_data, amount) == HasBorrows(account_data) /\ amount = MaxStr

UnsafeMaxWithdrawMessage ==
  <<"Error", ": You have active borrows.",
    " You cannot withdraw all your collateral. Specify an exact amount instead.">>

AccountCheckError(e) == <<"Error", " checking account data: ">> \o e.txt

\* account_data["totalCollateralBase"] == 0
NoCollateral(account_data) == DecEq(account_data.totalCollateralBase, DecFromInt(IntOf(0)))

NoCollateralMessage ==
  <<"Error", ": You have no collateral supplied.",
    " Supply assets as collateral before borrowing.">>

\* the estimate with the USDC price applied to every token
EstimatedEthValueAllScaled(token_symbol, amount_decimal) ==
  DecDiv(amount_decimal, DecFromInt(IntOf(3000)))

\* the rough ETH value of the requested amount
EstimatedEthValue(token_symbol, amount_decimal) ==
  IF token_symbol \in {"WETH", "WSTETH", "CBETH"} THEN amount_decimal
  ELSE IF token_symbol = "USDC" THEN DecDiv(amount_decimal, DecFromInt(IntOf(3000)))
  ELSE amount_decimal

\* estimated_eth_value > account_data["availableBorrowsBase"]
ExceedsCapacity(token_symbol, amount_decimal, account_data) ==
  DecGreater(EstimatedEthValue(token_symbol, amount_decimal), account_data.availableBorrowsBase)

InsufficientCapacityMessage(account_data) ==
  <<"Error", ": Insufficient borrowing capacity.", " You can borrow up to ">>
    \o DecFormatF(account_data.availableBorrowsBase, 4) \o <<" ETH worth of assets.">>

ApproveError(e) == <<"Error", " approving token: ">> \o e.txt

ExecuteError(op, e) == <<"Error", " executing ", op, " transaction: ">> \o e.txt

\* the status check missing from borrow as it is from supply
RevertedExceptBorrow(op, status) == op \notin {"supply", "borrow"} /\ status # 1

\* receipt.status != 1, which supply does not look at
Reverted(op, status) == op # "supply" /\ status # 1

RevertedMessage(op) ==
  <<"Error", ": Transaction failed.",
    CASE op = "withdraw" -> " Your health factor may be at risk if you withdraw this amount."
      [] op = "borrow" -> " The borrow may exceed your available borrowing capacity."
      [] op = "repay" ->
           " You may not have borrowed this asset with the specified interest rate mode.">>

\* new_health when the read after the transaction raises
HealthFallback(op, current_health) ==
  CASE op \in {"supply", "repay"} -> current_health
    [] op = "withdraw" -> DecInfinity
    [] op = "borrow" -> Dec(FALSE, NatZero, 0)

HealthChanged(current_health, new_health) ==
  <<"\nHealth factor changed from ">> \o DecFormatF(current_health, 2)
    \o <<" to ">> \o DecFormatF(new_health, 2)

\* the delta line left out exactly when both factors are +infinity, for every
\* operation alike
HealthMessageUniform(op, current_health, new_health) ==
  IF DecIsInf(current_health) /\ ~current_health.neg
     /\ DecIsInf(new_health) /\ ~new_health.neg
  THEN <<>> ELSE HealthChanged(current_health, new_health)

HealthMessage(op, current_health, new_health) ==
  CASE op \in {"supply", "withdraw"} ->
         IF DecIsInf(current_health) /\ ~current_health.neg
            /\ DecIsInf(new_health) /\ ~new_health.neg
         THEN <<>> ELSE HealthChanged(current_health, new_health)
    [] op = "borrow" -> HealthChanged(current_health, new_health)
    [] op = "repay" ->
         IF DecIsInf(new_health) /\ ~new_health.neg
         THEN <<"\nYou have repaid all your debt and have no active borrows.">>
         ELSE HealthChanged(current_health, new_health)

\* new_health < 1.1 and new_health != Decimal("Infinity")
LowHealth(new_health) == DecLess(new_health, Float_1_1) /\ ~DecIsInf(new_health)

WarningMessage(new_health) ==
  IF LowHealth(new_health)
  THEN <<"\n(warning sign) WARNING: Your health factor is now ">> \o DecFormatF(new_health, 2)
         \o <<", which is dangerously low.",
              " Consider repaying some debt or adding more collateral to avoid liquidation.">>
  ELSE <<>>

InterestMode(r) == IF r.interest_rate_mode = 2 THEN "variable" ELSE "stable"

\* the amount shown as the atomic value when it is "max"
AmountDisplayAtomic(r) ==
  IF r.amount # MaxStr THEN r.amount ELSE NatChars(Uint256Max.mag)

AmountDisplay(r) ==
  IF r.amount # MaxStr THEN r.amount
  ELSE IF r.op = "withdraw" THEN <<"all available">> ELSE <<"all outstanding">>

SuccessMessage(r, l, token_symbol) ==
  CASE r.op = "supply" ->
         <<"Successfully", " supplied ">> \o r.amount \o <<" ", token_symbol, " to Aave.\n",
           "Transaction hash: ", l.tx_hash>>
           \o HealthMessage(r.op, l.current_health, l.new_health)
    [] r.op = "withdraw" ->
         <<"Successfully", " withdrew ">> \o AmountDisplay(r)
           \o <<" ", token_symbol, " from Aave.\n", "Transaction hash: ", l.tx_hash>>
           \o HealthMessage(r.op, l.current_health, l.new_health)
    [] r.op = "borrow" ->
         <<"Successfully", " borrowed ">> \o r.amount
           \o <<" ", token_symbol, " from Aave with ", InterestMode(r), " interest rate.\n",
                "Transaction hash: ", l.tx_hash>>
           \o HealthMessage(r.op, l.current_health, l.new_health)
           \o WarningMessage(l.new_health)
    [] r.op = "repay" ->
         <<"Successfully", " repaid ">> \o AmountDisplay(r)
           \o <<" ", token_symbol, " to Aave with ", InterestMode(r), " interest rate.\n",
                "Transaction hash: ", l.tx_hash>>
           \o HealthMessage(r.op, l.current_health, l.new_health)

\* --------------------------------------------------------- portfolio report
\* account[:6] and account[-4:] for the addresses the model uses
AddressHead(a) ==
  CASE a = WalletAddress -> "0x1111" [] a = OtherAddress -> "0x2222" [] OTHER -> a

AddressTail(a) ==
  CASE a = WalletAddress -> "1111" [] a = OtherAddress -> "2222" [] OTHER -> a

\* format(x, ".<places>%")
DecFormatPct(x, places) ==
  IF DecIsInf(x) THEN DecStr(x) \o <<"%">>
  ELSE DecFormatF(Dec(x.neg, x.coef, x.exp + 2), places) \o <<"%">>

\* the band of the health-factor line of the report
RiskBand(health_factor) ==
  IF DecIsInf(health_factor) /\ ~health_factor.neg THEN "NoDebt"
  ELSE IF DecGeq(health_factor, DecFromInt(IntOf(2))) THEN "Healthy"
  ELSE IF DecGeq(health_factor, Float_1_1) THEN "Caution"
  ELSE "Danger"

HealthFactorLine(health_factor) ==
  CASE RiskBand(health_factor) = "NoDebt" ->
         <<"**Health Factor:** ", "(infinity sign)", " (No borrows)\n">>
    [] RiskBand(health_factor) = "Healthy" ->
         <<"**Health Factor:** ">> \o DecFormatF(health_factor, 2) \o <<" (Healthy)\n">>
    [] RiskBand(health_factor) = "Caution" ->
         <<"**Health Factor:** ">> \o DecFormatF(health_factor, 2) \o <<" (Caution)\n">>
    [] RiskBand(health_factor) = "Danger" ->
         <<"**Health Factor:** ">> \o DecFormatF(health_factor, 2)
           \o <<" (Danger - Risk of Liquidation)\n">>

Recommendation(d) ==
  IF LowHealth(d.healthFactor)
  THEN <<"- **WARNING**: Your position is at risk of liquidation.",
         " Consider repaying some debt or adding more collateral.\n">>
  ELSE IF DecGreater(d.totalCollateralBase, DecFromInt(IntOf(0)))
          /\ DecEq(d.totalDebtBase, DecFromInt(IntOf(0)))
  THEN <<"- You have supplied collateral but have no borrows.",
         " You can borrow against your collateral or withdraw if needed.\n">>
  ELSE IF DecGreater(d.availableBorrowsBase, DecFromInt(IntOf(0)))
  THEN <<"- You can safely borrow up to ">> \o DecFormatF(d.availableBorrowsBase, 4)
         \o <<" ETH more.\n">>
  ELSE <<>>

PortfolioMarkdown(account, d) ==
  <<"# Aave Portfolio for ", AddressHead(account), "...", AddressTail(account), "\n\n",
    "## Summary\n\n", "**Total Collateral:** ">>
    \o DecFormatF(d.totalCollateralBase, 4) \o <<" ETH\n", "**Total Debt:** ">>
    \o DecFormatF(d.totalDebtBase, 4) \o <<" ETH\n", "**Available to Borrow:** ">>
    \o DecFormatF(d.availableBorrowsBase, 4) \o <<" ETH\n", "**Liquidation Threshold:** ">>
    \o DecFormatPct(d.currentLiquidationThreshold, 2) \o <<"\n", "**Loan to Value:** ">>
    \o DecFormatPct(d.ltv, 2) \o <<"\n">>
    \o HealthFactorLine(d.healthFactor)
    \o <<"\n## Reserve Details\n\n",
         "*Detailed reserve information not available in this version*\n",
         "\n## Recommendations\n\n">>
    \o Recommendation(d)

\* ------------------------------------------------------------------ actions
\* the handler up to its first ledger interaction: schema validation,
\* get_network, address resolution
Invoke(p, r) ==
  /\ p \in callers
  /\ pc[p] = "idle"
  /\ req' = [req EXCEPT ![p] = r]
  /\ calls' = [calls EXCEPT ![p] = <<>>]
  /\ UNCHANGED <<callers, calc, ledger>>
  /\ LET fail(e) ==
           /\ pc' = [pc EXCEPT ![p] = "done"]
           /\ result' = [result EXCEPT ![p] = Boundary(r.op, e)]
           /\ loc' = [loc EXCEPT ![p] = NoLocals]
         start(l) ==
           /\ pc' = [pc EXCEPT ![p] = Flow(r.op, r.amount)[1]]
           /\ result' = [result EXCEPT ![p] = NoResult]
           /\ loc' = [loc EXCEPT ![p] = l]
     IN  IF r.op # "get_portfolio" /\ r.asset_id \notin AssetIdLiteral
         THEN fail(Raise("ValidationError",
                         <<"1 validation error for Aave schema\nasset_id\n",
                           "  Input should be 'weth', 'usdc', 'cbeth' or 'wsteth'">>))
         ELSE IF r.network \notin DOMAIN POOL_ADDRESSES
         THEN fail(Raise("KeyError", <<"'", r.network, "'">>))
         ELSE IF r.op = "get_portfolio"
         THEN start([NoLocals EXCEPT
                       !.account = OrWallet(r.beneficiary),
                       !.pool_address = ToChecksumAddress(POOL_ADDRESSES[r.network])])
         ELSE IF r.asset_id \notin DOMAIN ASSET_ADDRESSES[r.network]
         THEN fail(Raise("ValueError",
                         <<"Asset ", r.asset_id, " not supported on ", r.network>>))
         ELSE start([NoLocals EXCEPT
                       !.account = WalletAddress,
                       !.pool_address = ToChecksumAddress(POOL_ADDRESSES[r.network]),
                       !.asset_address =
                          ToChecksumAddress(ASSET_ADDRESSES[r.network][r.asset_id])])

\* get_token_decimals, then format_amount_with_decimals
ReadDecimals(p) ==
  /\ pc[p] = "decimals"
  /\ \E out \in {LedgerError} \cup {Return(d) : d \in DecimalsReads} :
       LET r == req[p]
           l == loc[p]
           log == Append(calls[p], ReadCall("decimals", l.asset_address, <<>>, out.ok))
           convert(a) ==
             IF ~a.ok THEN Finish(p, Boundary(r.op, a), l, log)
             ELSE Continue(p, "decimals",
                           [l EXCEPT !.decimals = out.val, !.amount_atomic = a.val], log)
       IN  IF ~out.ok THEN Finish(p, Boundary(r.op, out), l, log)
           ELSE convert(format_amount_with_decimals(r.amount, out.val))

\* get_token_balance and the balance check of supply and repay
ReadBalance(p) ==
  /\ pc[p] = "balance"
  /\ \E out \in {LedgerError} \cup {Return(b) : b \in BalanceReads} :
       LET r == req[p]
           l == loc[p]
           log == Append(calls[p],
                         ReadCall("balanceOf", l.asset_address, <<WalletAddress>>, out.ok))
           l2 == [l EXCEPT !.wallet_balance = out.val]
       IN  IF ~out.ok THEN Finish(p, Boundary(r.op, out), l, log)
           ELSE IF InsufficientBalance(out.val, l.amount_atomic)
           THEN Finish(p, Returned(InsufficientBalanceMessage(r, out.val, l.decimals)), l2, log)
           ELSE Continue(p, "balance", l2, log)

\* get_health_factor before the transaction with its failure returned as
\* the account-check error by every operation
ReadHealthBeforeStrict(p) ==
  /\ pc[p] = "health_before"
  /\ \E out \in {LedgerError} \cup {Return(a) : a \in AccountReads} :
       LET r == req[p]
           l == loc[p]
           log == Append(calls[p],
                         ReadCall("getUserAccountData", l.pool_address, <<WalletAddress>>, out.ok))
           enc == EncodeAbi("approve", ApproveArgs(l), l.amount_atomic)
           keep(l2) ==
             IF ~out.ok THEN Finish(p, Returned(AccountCheckError(out)), l, log)
             ELSE IF r.op # "withdraw" /\ ~enc.ok
                  THEN Finish(p, Returned(ApproveError(enc)), l2, log)
                  ELSE Continue(p, "health_before", l2, log)
       IN  keep([l EXCEPT !.current_health =
                   IF out.ok THEN AccountData(out.val).healthFactor ELSE DecInfinity])

\* get_health_factor before the transaction; in supply and repay the encoding
\* of the approval follows
ReadHealthBefore(p) ==
  /\ pc[p] = "health_before"
  /\ \E out \in {LedgerError} \cup {Return(a) : a \in AccountReads} :
       LET r == req[p]
           l == loc[p]
           log == Append(calls[p],
                         ReadCall("getUserAccountData", l.pool_address, <<WalletAddress>>, out.ok))
           enc == EncodeAbi("approve", ApproveArgs(l), l.amount_atomic)
           keep(l2) ==
             IF r.op = "withdraw"
             THEN IF ~out.ok THEN Finish(p, Returned(AccountCheckError(out)), l, log)
                  ELSE Continue(p, "health_before", l2, log)
             ELSE IF ~enc.ok THEN Finish(p, Returned(ApproveError(enc)), l2, log)
                  ELSE Continue(p, "health_before", l2, log)
       IN  keep([l EXCEPT !.current_health =
                   IF out.ok THEN AccountData(out.val).healthFactor ELSE DecInfinity])

\* get_user_account_data before the transaction: the debt check of withdraw,
\* the collateral check of borrow
ReadAccountBefore(p) ==
  /\ pc[p] = "account_before"
  /\ \E out \in {LedgerError} \cup {Return(a) : a \in AccountReads} :
       LET r == req[p]
           l == loc[p]
           log == Append(calls[p],
                         ReadCall("getUserAccountData", l.pool_address, <<WalletAddress>>, out.ok))
           enc == EncodeAbi(r.op, ExecuteArgs(r, l), l.amount_atomic)
           check(d, l2) ==
             IF r.op = "withdraw"
             THEN IF UnsafeMaxWithdraw(d, r.amount)
                  THEN Finish(p, Returned(UnsafeMaxWithdrawMessage), l2, log)
                  ELSE IF ~enc.ok THEN Finish(p, Boundary(r.op, enc), l2, log)
                  ELSE Continue(p, "account_before", l2, log)
             ELSE IF NoCollateral(d)
                  THEN Finish(p, Returned(NoCollateralMessage), l2, log)
                  ELSE Continue(p, "account_before", l2, log)
           keep(d) == check(d, [l EXCEPT !.account_data = d])
       IN  IF ~out.ok THEN Finish(p, Returned(AccountCheckError(out)), l, log)
           ELSE keep(AccountData(out.val))

\* borrow: get_token_symbol and the borrowing-capacity estimate
ReadSymbolCheck(p) ==
  /\ pc[p] = "symbol_check"
  /\ \E out \in {LedgerError, Return(SymbolOf(loc[p].asset_address))} :
       LET r == req[p]
           l == loc[p]
           log == Append(calls[p], ReadCall("symbol", l.asset_address, <<>>, out.ok))
           l2 == [l EXCEPT !.current_health = l.account_data.healthFactor]
           enc == EncodeAbi(r.op, ExecuteArgs(r, l), l.amount_atomic)
           check(amount_decimal) ==
             IF ~amount_decimal.ok
             THEN Finish(p, Returned(AccountCheckError(amount_decimal)), l, log)
             ELSE IF ExceedsCapacity(out.val, amount_decimal.val, l.account_data)
             THEN Finish(p, Returned(InsufficientCapacityMessage(l.account_data)), l, log)
             ELSE IF ~enc.ok THEN Finish(p, Boundary(r.op, enc), l2, log)
             ELSE Continue(p, "symbol_check", l2, log)
       IN  IF ~out.ok THEN Finish(p, Returned(AccountCheckError(out)), l, log)
           ELSE check(DecParse(r.amount))

\* the hash the ledger client hands back for the next transaction of p
NextHash(p) ==
  TxHashes[Cardinality({i \in 1 .. Len(calls[p]) :
                          calls[p][i].kind = "send" /\ calls[p][i].ok}) + 1]

\* approve_token: wallet.send_transaction of the approval
SendApprove(p) ==
  /\ pc[p] = "approve_send"
  /\ \E out \in {LedgerError, Return(NextHash(p))} :
       LET l == loc[p]
           log == Append(calls[p], SendCall("approve", l.asset_address, ApproveArgs(l), out.ok))
       IN  IF ~out.ok THEN Finish(p, Returned(ApproveError(out)), l, log)
           ELSE Continue(p, "approve_send", [l EXCEPT !.approve_tx_hash = out.val], log)

\* approve_token: wallet.wait_for_transaction_receipt of the approval; the
\* encoding of the protocol call follows
WaitApprove(p) ==
  /\ pc[p] = "approve_wait"
  /\ \E out \in {LedgerError} \cup {Return(st) : st \in StatusReads} :
       LET r == req[p]
           l == loc[p]
           log == Append(calls[p],
                         WaitCall("approve", l.asset_address, <<l.approve_tx_hash>>, out.ok,
                                  IF out.ok THEN out.val ELSE -1))
           enc == EncodeAbi(r.op, ExecuteArgs(r, l), l.amount_atomic)
       IN  IF ~out.ok THEN Finish(p, Returned(ApproveError(out)), l, log)
           ELSE IF ~enc.ok THEN Finish(p, Boundary(r.op, enc), l, log)
           ELSE Continue(p, "approve_wait", l, log)

\* wallet_provider.send_transaction of the protocol call
SendExecute(p) ==
  /\ pc[p] = "execute_send"
  /\ \E out \in {LedgerError, Return(NextHash(p))} :
       LET r == req[p]
           l == loc[p]
           log == Append(calls[p], SendCall(r.op, l.pool_address, ExecuteArgs(r, l), out.ok))
       IN  IF ~out.ok THEN Finish(p, Returned(ExecuteError(r.op, out)), l, log)
           ELSE Continue(p, "execute_send", [l EXCEPT !.tx_hash = out.val], log)

\* the handler taking the allowance back, with an approval of 0 that is
\* confirmed, when the protocol call reverted
WaitExecuteRevoking(p) ==
  /\ pc[p] = "execute_wait"
  /\ \E out \in {LedgerError} \cup {Return(st) : st \in StatusReads} :
       LET r == req[p]
           l == loc[p]
           log == Append(calls[p],
                         WaitCall(r.op, l.pool_address, <<l.tx_hash>>, out.ok,
                                  IF out.ok THEN out.val ELSE -1))
           revoked == log \o <<SendCall("approve", l.asset_address,
                                        <<l.pool_address, IntOf(0)>>, TRUE),
                               WaitCall("approve", l.asset_address, <<"0xhash3">>, TRUE, 1)>>
       IN  IF ~out.ok THEN Finish(p, Returned(ExecuteError(r.op, out)), l, log)
           ELSE IF Reverted(r.op, out.val)
           THEN Finish(p, Returned(RevertedMessage(r.op)), l, revoked)
           ELSE Continue(p, "execute_wait", l, log)

\* wallet_provider.wait_for_transaction_receipt of the protocol call and the
\* check of the receipt status
WaitExecute(p) ==
  /\ pc[p] = "execute_wait"
  /\ \E out \in {LedgerError} \cup {Return(st) : st \in StatusReads} :
       LET r == req[p]
           l == loc[p]
           log == Append(calls[p],
                         WaitCall(r.op, l.pool_address, <<l.tx_hash>>, out.ok,
                                  IF out.ok THEN out.val ELSE -1))
       IN  IF ~out.ok THEN Finish(p, Returned(ExecuteError(r.op, out)), l, log)
           ELSE IF Reverted(r.op, out.val) THEN Finish(p, Returned(RevertedMessage(r.op)), l, log)
           ELSE Continue(p, "execute_wait", l, log)

\* the account read after the transaction, with its fallback
ReadHealthAfter(p) ==
  /\ pc[p] = "health_after"
  /\ \E out \in {LedgerError} \cup {Return(a) : a \in AccountReads} :
       LET r == req[p]
           l == loc[p]
           log == Append(calls[p],
                         ReadCall("getUserAccountData", l.pool_address, <<WalletAddress>>, out.ok))
           health == IF out.ok THEN AccountData(out.val).healthFactor
                     ELSE HealthFallback(r.op, l.current_health)
       IN  Continue(p, "health_after", [l EXCEPT !.new_health = health], log)

\* get_token_symbol and the composition of the success message
ReadSymbol(p) ==
  /\ pc[p] = "symbol"
  /\ \E out \in {LedgerError, Return(SymbolOf(loc[p].asset_address))} :
       LET r == req[p]
           l == loc[p]
           log == Append(calls[p], ReadCall("symbol", l.asset_address, <<>>, out.ok))
       IN  IF ~out.ok THEN Finish(p, Boundary(r.op, out), l, log)
           ELSE Finish(p, Returned(SuccessMessage(r, l, out.val)), l, log)

\* get_portfolio_details_markdown reading the account a second time for the
\* report
ReadPortfolioTwice(p) ==
  /\ pc[p] = "portfolio_read"
  /\ \E out \in {LedgerError} \cup {Return(a) : a \in AccountReads} :
       LET r == req[p]
           l == loc[p]
           read == ReadCall("getUserAccountData", l.pool_address, <<l.account>>, out.ok)
           log == calls[p] \o <<read, read>>
           report(d) ==
             Finish(p, Returned(PortfolioMarkdown(l.account, d)),
                    [l EXCEPT !.account_data = d], log)
       IN  IF ~out.ok THEN Finish(p, Boundary(r.op, out), l, log)
           ELSE report(AccountData(out.val))

\* get_portfolio_details_markdown: one account read and the report
ReadPortfolio(p) ==
  /\ pc[p] = "portfolio_read"
  /\ \E out \in {LedgerError} \cup {Return(a) : a \in AccountReads} :
       LET r == req[p]
           l == loc[p]
           log == Append(calls[p],
                         ReadCall("getUserAccountData", l.pool_address, <<l.account>>, out.ok))
           report(d) ==
             Finish(p, Returned(PortfolioMarkdown(l.account, d)),
                    [l EXCEPT !.account_data = d], log)
       IN  IF ~out.ok THEN Finish(p, Boundary(r.op, out), l, log)
           ELSE report(AccountData(out.val))

\* the caller has taken the returned string; the provider keeps nothing of
\* the invocation
Collect(p) ==
  /\ pc[p] = "done"
  /\ pc' = [pc EXCEPT ![p] = "idle"]
  /\ req' = [req EXCEPT ![p] = NoRequest]
  /\ loc' = [loc EXCEPT ![p] = NoLocals]
  /\ calls' = [calls EXCEPT ![p] = <<>>]
  /\ result' = [result EXCEPT ![p] = NoResult]
  /\ UNCHANGED <<callers, calc, ledger>>

Next ==
  \E p \in Procs :
    \/ \E r \in Requests : Invoke(p, r)
    \/ ReadDecimals(p)
    \/ ReadBalance(p)
    \/ ReadHealthBefore(p)
    \/ ReadAccountBefore(p)
    \/ ReadSymbolCheck(p)
    \/ SendApprove(p)
    \/ WaitApprove(p)
    \/ SendExecute(p)
    \/ WaitExecute(p)
    \/ ReadHealthAfter(p)
    \/ ReadSymbol(p)
    \/ ReadPortfolio(p)
    \/ Collect(p)

Spec == Init /\ [][Next]_vars

\* ------------------------------------------- invocations on a followed ledger
\* the transactions with a receipt that are followed
MaxLedgerTxs == 4

\* the allowance of the pool over the wallet's tokens after the transactions
\* txs: an approval with status 1 sets it, a supply or repay with status 1
\* spends the amount from it unless it is 2^256 - 1
RECURSIVE Allowance(_)
Allowance(txs) ==
  IF txs = <<>> THEN IntOf(0)
  ELSE LET before == Allowance(SubSeq(txs, 1, Len(txs) - 1))
           t == txs[Len(txs)]
       IN  IF t.status # 1 THEN before
           ELSE IF t.fn = "approve" THEN t.amount
           ELSE IF t.fn \in {"supply", "repay"} /\ before # Uint256Max
           THEN IntAdd(before, MkInt(TRUE, t.amount.mag))
           ELSE before

\* calls that two callers with the same wallet make for the same asset
LedgerRequests ==
  [op : {"supply"}, network : {"base-mainnet"}, asset_id : {"weth"},
   amount : {<<"1">>, <<"2">>}, beneficiary : {None},
   interest_rate_mode : {2}, referral_code : {0}]
  \cup
  [op : {"borrow", "repay"}, network : {"base-mainnet"}, asset_id : {"weth"},
   amount : {<<"1">>}, beneficiary : {None},
   interest_rate_mode : {2}, referral_code : {0}]

\* the account as get_user_account_data reports it on that ledger
LedgerAccount ==
  AccountData(<<IntShift(IntOf(1), 18), IntOf(0), IntShift(IntOf(1), 18),
                IntOf(8000), IntOf(7500), IntOf(0)>>)

\* the answers of a ledger on which every call returns: an 18-decimals token,
\* a wallet balance of 2 tokens, an account with collateral and no debt,
\* approvals that take effect, and a supply or repay that takes effect only
\* if the allowance covers its amount
LedgerAnswers ==
  /\ \A p \in Procs :
       /\ \A i \in DOMAIN calls[p] :
            /\ calls[p][i].ok
            /\ calls[p][i].kind = "wait" /\ calls[p][i].fn = "approve" => calls[p][i].status = 1
       /\ calls[p] # <<>> => loc[p].decimals = 18
       /\ (\E i \in DOMAIN calls[p] : calls[p][i].fn = "balanceOf") =>
            loc[p].wallet_balance.mag = <<2, 0, 0, 0, 0, 0, 0, 0, 0, 0, 0, 0, 0, 0, 0, 0, 0, 0, 0>>
       /\ loc[p].account_data \in {NoAccountData, LedgerAccount}
       /\ loc[p].current_health \in {DecInfinity, LedgerAccount.healthFactor}
       /\ loc[p].new_health \in {DecInfinity, LedgerAccount.healthFactor}
  /\ \A k \in DOMAIN ledger.txs :
       ledger.txs[k].fn \in {"supply", "repay"} /\ ledger.txs[k].status = 1 =>
         ~IntLess(Allowance(SubSeq(ledger.txs, 1, k - 1)), ledger.txs[k].amount)

LedgerInit ==
  /\ callers = Procs
  /\ pc = [p \in Procs |-> "idle"]
  /\ req = [p \in Procs |-> NoRequest]
  /\ loc = [p \in Procs |-> NoLocals]
  /\ calls = [p \in Procs |-> <<>>]
  /\ result = [p \in Procs |-> NoResult]
  /\ calc = NoCalc
  /\ ledger = [tracked |-> TRUE, txs |-> <<>>]

LedgerNext ==
  \E p \in Procs :
    \/ /\ Len(ledger.txs) + 2 * Cardinality({q \in Procs : pc[q] \notin {"idle", "done"}})
            <= MaxLedgerTxs - 2
       /\ \E r \in LedgerRequests : Invoke(p, r)
       /\ LedgerAnswers'
    \/ ReadDecimals(p) /\ LedgerAnswers'
    \/ ReadBalance(p) /\ LedgerAnswers'
    \/ ReadHealthBefore(p) /\ LedgerAnswers'
    \/ ReadAccountBefore(p) /\ LedgerAnswers'
    \/ ReadSymbolCheck(p) /\ LedgerAnswers'
    \/ SendApprove(p) /\ LedgerAnswers'
    \/ WaitApprove(p) /\ LedgerAnswers'
    \/ SendExecute(p) /\ LedgerAnswers'
    \/ WaitExecute(p) /\ LedgerAnswers'
    \/ ReadHealthAfter(p) /\ LedgerAnswers'
    \/ ReadSymbol(p) /\ LedgerAnswers'
    \/ Collect(p) /\ LedgerAnswers'

LedgerSpec == LedgerInit /\ [][LedgerNext]_vars

\* ------------------------------------------------- the helpers on their own
\* amount strings handed to format_amount_with_decimals
CodecAmounts ==
  {<<"0">>, <<"1">>, <<"7">>, <<"1", "0">>, <<"0", ".", "5">>, <<"1", ".", "5">>,
   <<"1", ".", "2", "3", "4", "5", "6">>, <<"1", ".", "9", "9", "9">>, <<"1", ".">>,
   <<"0", "0", "7", ".", "2", "5", "0">>, MaxStr, <<"M", "a", "x">>,
   <<"-", "1">>, <<"-", "0", ".", "5">>, <<"+", "2">>, <<"x">>, <<>>, <<"1", ".", "2", ".", "3">>,
   <<"1", "e", "0">>, <<"1", ".", "5", "e", "1">>, <<"2", "E", "-", "1">>,
   <<"1", ".", "2", "3", "4", "5", "6", "e", "0">>, <<"-", "1", "e", "0">>,
   <<"1", "e">>, <<"e", "5">>, <<"1", "e", "x">>, <<"x", "e", "1">>}

CodecDecimals == {0, 1, 4, 6, 18}

\* atomic amounts handed to format_amount_from_decimals
CodecAtomics ==
  {IntOf(0), IntOf(1), IntOf(15), IntOf(10), IntOf(12345), IntOf(1500000),
   IntShift(IntOf(15), 7), IntShift(IntOf(1), 8), IntShift(IntOf(15), 17),
   IntShift(IntOf(1), 18), IntShift(IntOf(2), 18), IntShift(IntOf(25), 20)}

\* raw health factors handed to the account reader
CodecHealthRaws ==
  {IntOf(0), MkInt(TRUE, <<1>>), IntOf(1), IntShift(IntOf(5), 17), IntShift(IntOf(1), 18),
   IntShift(IntOf(10999), 14), IntShift(IntOf(11), 17), IntShift(IntOf(11001), 14),
   IntShift(IntOf(15), 17), IntShift(IntOf(19999), 14), IntShift(IntOf(2), 18),
   IntShift(IntOf(3), 18)}

CalcOf(fn, amount, decimals, atomic) ==
  [fn |-> fn, amount |-> amount, decimals |-> decimals, atomic |-> atomic,
   network |-> NoNetwork, ledger |-> <<>>, reads |-> 0, given |-> <<>>, out |-> <<>>]

\* networks a wallet provider can report
CodecNetworks ==
  [protocol_family : {"evm", "EVM", "svm"},
   network_id : {"base-mainnet", "base-sepolia", "ethereum", "solana-mainnet", None}]

\* what getUserAccountData can answer for the account at different times
CodecLedgers ==
  {<<IntOf(0), IntOf(0), IntOf(0), IntOf(0), IntOf(0), IntOf(0)>>,
   <<IntShift(IntOf(3), 18), IntShift(IntOf(1), 18), IntShift(IntOf(2), 18),
     IntOf(8000), IntOf(7500), IntShift(IntOf(24), 17)>>,
   <<IntShift(IntOf(3), 18), IntShift(IntOf(2), 18), IntShift(IntOf(1), 17),
     IntOf(8250), IntOf(8000), IntShift(IntOf(12375), 14)>>}

\* consecutive calls of get_user_account_data that are followed
MaxReaderCalls == 2

\* the optional arguments of the schemas: on_behalf_of (to, in withdraw),
\* interest_rate_mode and referral_code
OptionalFields == {"beneficiary", "interest_rate_mode", "referral_code"}

\* the arguments a caller passes: the required ones and any of the optional
\* ones
CodecGiven ==
  {[f \in {"op", "network", "asset_id", "amount"} \cup D |-> v[f]] :
     v \in [op : MoneyOps, network : {"base-mainnet"}, asset_id : {"weth"},
            amount : {<<"1">>}, beneficiary : {None, "", OtherAddress, WalletAddress},
            interest_rate_mode : {1, 2, 3}, referral_code : {0, 7}],
     D \in SUBSET OptionalFields}

\* the validated arguments: a field that was not passed gets the default of
\* its Field(...)
SchemaDefaults(given) ==
  [f \in DOMAIN given \cup OptionalFields |->
     IF f \in DOMAIN given THEN given[f]
     ELSE CASE f = "beneficiary" -> None
            [] f = "interest_rate_mode" -> 2
            [] f = "referral_code" -> 0]

CodecInputs ==
  {CalcOf("format_amount_with_decimals", s, d, IntOf(0)) : s \in CodecAmounts, d \in CodecDecimals}
    \cup {CalcOf(fn, <<>>, d, a) :
            fn \in {"format_amount_from_decimals", "round_trip"},
            d \in CodecDecimals, a \in CodecAtomics}
    \cup {CalcOf(fn, <<>>, 18, h) :
            fn \in {"get_user_account_data", "risk_band"}, h \in CodecHealthRaws}
    \cup {[CalcOf("supports_network", <<>>, 0, IntOf(0)) EXCEPT !.network = n] :
            n \in CodecNetworks}
    \cup {[CalcOf("account_reader", <<>>, 0, IntOf(0)) EXCEPT !.ledger = g] :
            g \in CodecLedgers}
    \cup {[CalcOf("execute_args", <<>>, 18, IntOf(1)) EXCEPT !.given = g] :
            g \in CodecGiven}

CodecInit ==
  /\ callers = {}
  /\ pc = [p \in Procs |-> "idle"]
  /\ req = [p \in Procs |-> NoRequest]
  /\ loc = [p \in Procs |-> NoLocals]
  /\ calls = [p \in Procs |-> <<>>]
  /\ result = [p \in Procs |-> NoResult]
  /\ calc \in CodecInputs
  /\ ledger = NoLedger

Calc(fn, out) ==
  /\ calc.fn = fn /\ calc.out = <<>>
  /\ calc' = [calc EXCEPT !.out = <<out>>]
  /\ UNCHANGED <<callers, pc, req, loc, calls, result, ledger>>

CallFormatWithDecimals ==
  Calc("format_amount_with_decimals", format_amount_with_decimals(calc.amount, calc.decimals))

CallFormatFromDecimals ==
  Calc("format_amount_from_decimals", format_amount_from_decimals(calc.atomic, calc.decimals))

\* format_amount_with_decimals(format_amount_from_decimals(a, d), d)
CallRoundTrip ==
  Calc("round_trip",
       format_amount_with_decimals(format_amount_from_decimals(calc.atomic, calc.decimals),
                                   calc.decimals))

\* get_user_account_data on a read whose sixth value is calc.atomic
CallAccountData ==
  Calc("get_user_account_data",
       AccountData(<<IntOf(0), IntOf(0), IntOf(0), IntOf(8000), IntOf(7500), calc.atomic>>))

\* the band get_portfolio_details_markdown prints for the health factor of
\* that read
CallRiskBand ==
  Calc("risk_band",
       RiskBand(AccountData(<<IntOf(0), IntOf(0), IntOf(0), IntOf(8000), IntOf(7500),
                              calc.atomic>>).healthFactor))

CallSupportsNetwork ==
  Calc("supports_network", supports_network(calc.network))

\* the arguments of the protocol call built from the validated arguments,
\* for amount_atomic calc.atomic
CallExecuteArgs ==
  Calc("execute_args",
       ExecuteArgs(SchemaDefaults(calc.given),
                   [NoLocals EXCEPT
                      !.asset_address = ASSET_ADDRESSES[calc.given.network][calc.given.asset_id],
                      !.amount_atomic = calc.atomic]))

\* a reader that answers from its first result once it has one
CallGetUserAccountDataCached ==
  /\ calc.fn = "account_reader" /\ Len(calc.out) < MaxReaderCalls
  /\ calc' = IF calc.out = <<>>
             THEN [calc EXCEPT !.reads = @ + 1,
                               !.out = <<[raw |-> calc.ledger, data |-> AccountData(calc.ledger)]>>]
             ELSE [calc EXCEPT !.out = Append(@, [raw |-> calc.ledger, data |-> calc.out[1].data])]
  /\ UNCHANGED <<callers, pc, req, loc, calls, result, ledger>>

\* one call of get_user_account_data: one read_contract of getUserAccountData
\* and the dictionary built from its answer; raw is the ledger's answer at the
\* time of the call
CallGetUserAccountData ==
  /\ calc.fn = "account_reader" /\ Len(calc.out) < MaxReaderCalls
  /\ calc' = [calc EXCEPT !.reads = @ + 1,
                          !.out = Append(@, [raw |-> calc.ledger,
                                             data |-> AccountData(calc.ledger)])]
  /\ UNCHANGED <<callers, pc, req, loc, calls, result, ledger>>

\* the position of the account changes on the ledger between calls
LedgerChanges ==
  /\ calc.fn = "account_reader" /\ Len(calc.out) < MaxReaderCalls
  /\ \E g \in CodecLedgers \ {calc.ledger} : calc' = [calc EXCEPT !.ledger = g]
  /\ UNCHANGED <<callers, pc, req, loc, calls, result, ledger>>

CodecNext ==
  \/ CallFormatWithDecimals
  \/ CallFormatFromDecimals
  \/ CallRoundTrip
  \/ CallAccountData
  \/ CallRiskBand
  \/ CallSupportsNetwork
  \/ CallGetUserAccountData
  \/ CallExecuteArgs
  \/ LedgerChanges

CodecSpec == CodecInit /\ [][CodecNext]_vars

\* --------------------------------------------------------------- properties
\* the vocabulary of the properties below
Done(p) == pc[p] = "done"

IsSuccess(p) ==
  result[p].kind = "returned" /\ result[p].value # <<>> /\ Head(result[p].value) = "Successfully"

IsReport(p) ==
  result[p].kind = "returned" /\ result[p].value # <<>>
    /\ Head(result[p].value) = "# Aave Portfolio for "

IsError(p) ==
  result[p].kind = "returned" /\ result[p].value # <<>> /\ Head(result[p].value) = "Error"

\* the result is the error whose text after "Error" starts with text
ErrorIs(p, text) == IsError(p) /\ Len(result[p].value) >= 2 /\ result[p].value[2] = text

\* call number i of p returned (did not raise)
Answered(p, i) == i \in DOMAIN calls[p] /\ calls[p][i].ok

IsSend(c) == c.kind = "send"

IsExecuteSend(p, c) == c.kind = "send" /\ c.fn = req[p].op

SentAnything(p) == \E i \in DOMAIN calls[p] : calls[p][i].kind \in {"send", "wait"}

\* the execute transaction of p was sent and its receipt reported status 1
ExecuteConfirmed(p) ==
  \E i, j \in DOMAIN calls[p] :
    /\ i < j
    /\ IsExecuteSend(p, calls[p][i]) /\ calls[p][i].ok
    /\ calls[p][j].kind = "wait" /\ calls[p][j].fn = req[p].op
    /\ calls[p][j].ok /\ calls[p][j].status = 1

InsufficientBalanceText == ": Insufficient balance. You have "

NoCollateralText == ": You have no collateral supplied."

InsufficientCapacityText == ": Insufficient borrowing capacity."

UnsafeMaxWithdrawText == ": You have active borrows."

ApprovalErrorText == " approving token: "

DecZero == Dec(FALSE, NatZero, 0)

\* C1: for supply, withdraw, borrow and repay the returned result is a success
\* message only if the execute transaction was sent and its receipt reported
\* status 1; in every other case the result is an error.
C1_SuccessOnlyIfExecuteConfirmed ==
  \A p \in Procs :
    Done(p) /\ req[p].op \in MoneyOps =>
      /\ IsSuccess(p) => ExecuteConfirmed(p)
      /\ ~ExecuteConfirmed(p) => IsError(p)

\* C2: an invocation that ends in a precondition failure (insufficient
\* balance, no collateral, insufficient borrowing capacity, unsafe max
\* withdraw) has sent no transaction and awaited no receipt.
C2_PreconditionFailureSendsNothing ==
  \A p \in Procs :
    Done(p) /\ (\/ ErrorIs(p, InsufficientBalanceText)
                \/ ErrorIs(p, NoCollateralText)
                \/ ErrorIs(p, InsufficientCapacityText)
                \/ ErrorIs(p, UnsafeMaxWithdrawText))
      => ~SentAnything(p)

\* a supply that read the balance and was rejected for it
C2_Witness ==
  \E p \in Procs :
    /\ Done(p) /\ req[p].op = "supply" /\ ErrorIs(p, InsufficientBalanceText)
    /\ Len(calls[p]) = 2 /\ Answered(p, 2)

\* C3: every operation hands a string back to its caller whatever the input
\* and whatever the ledger client does: no exception leaves the handler, the
\* string is a success message, a report or starts with "Error", and it starts
\* with "Error" whenever validation or address resolution failed (no ledger
\* call was made) or the last ledger call raised.
C3_FailuresAreErrorStrings ==
  \A p \in Procs :
    /\ result[p].kind \in {"none", "returned"}
    /\ Done(p) =>
         /\ result[p].kind = "returned"
         /\ IsSuccess(p) \/ IsReport(p) \/ IsError(p)
         /\ (calls[p] = <<>> \/ ~calls[p][Len(calls[p])].ok) => IsError(p)

\* the decimals read raised and the handler's outermost frame caught it
C3_Witness ==
  \E p \in Procs :
    Done(p) /\ Len(calls[p]) = 1 /\ ~calls[p][1].ok /\ calls[p][1].fn = "decimals" /\ IsError(p)

\* C4: in supply and repay the execute transaction is sent only after an
\* approval transaction to the token, naming the pool as spender and carrying
\* the same atomic amount, was sent and its receipt awaited; withdraw and
\* borrow send no approval.
C4_ApprovalPrecedesExecute ==
  \A p \in Procs :
    /\ req[p].op \in {"supply", "repay"} =>
         \A i \in DOMAIN calls[p] :
           IsExecuteSend(p, calls[p][i]) =>
             \E j, k \in 1 .. i - 1 :
               /\ j < k
               /\ calls[p][j].kind = "send" /\ calls[p][j].fn = "approve" /\ calls[p][j].ok
               /\ calls[p][j].to = calls[p][i].args[1]
               /\ calls[p][j].args = <<calls[p][i].to, calls[p][i].args[2]>>
               /\ calls[p][k].kind = "wait" /\ calls[p][k].fn = "approve" /\ calls[p][k].ok
    /\ req[p].op \in {"withdraw", "borrow"} =>
         \A i \in DOMAIN calls[p] : calls[p][i].fn # "approve"

\* a supply of a plain amount whose execute transaction was sent
C4_Witness ==
  \E p \in Procs :
    /\ req[p].op = "supply" /\ req[p].amount = <<"1">>
    /\ \E i \in DOMAIN calls[p] : IsExecuteSend(p, calls[p][i]) /\ calls[p][i].ok

\* the approval step of p failed: building, sending or awaiting it raised, or
\* its receipt reported a status other than 1
ApprovalFailed(p) ==
  \/ ErrorIs(p, ApprovalErrorText)
  \/ \E i \in DOMAIN calls[p] :
       calls[p][i].fn = "approve" /\ (~calls[p][i].ok \/ (calls[p][i].kind = "wait"
                                                         /\ calls[p][i].status # 1))

\* C5: in supply and repay, when the approval step fails the operation
\* returns the approval error, sends no execute transaction and attempts no
\* second approval.
C5_FailedApprovalAborts ==
  \A p \in Procs :
    req[p].op \in {"supply", "repay"} =>
      /\ Cardinality({i \in DOMAIN calls[p] :
                        IsSend(calls[p][i]) /\ calls[p][i].fn = "approve"}) <= 1
      /\ ApprovalFailed(p) =>
           /\ Done(p) => ErrorIs(p, ApprovalErrorText)
           /\ \A i \in DOMAIN calls[p] : ~IsExecuteSend(p, calls[p][i])

\* C6: a withdraw of "max" on an account whose total debt, as read from the
\* ledger, is greater than zero is rejected with the unsafe-max-withdraw error
\* and sends no transaction, whatever the collateral; a "max" withdraw with
\* zero debt and every withdraw of another amount passes this check.
C6_UnsafeMaxWithdraw ==
  \A p \in Procs :
    req[p].op = "withdraw" =>
      /\ Len(calls[p]) >= 3 /\ Answered(p, 3) =>
           ((req[p].amount = MaxStr /\ DecLess(DecZero, loc[p].account_data.totalDebtBase))
              <=> (Done(p) /\ Len(calls[p]) = 3 /\ ErrorIs(p, UnsafeMaxWithdrawText)))
      /\ ErrorIs(p, UnsafeMaxWithdrawText) =>
           /\ ~SentAnything(p)
           /\ Len(calls[p]) = 3 /\ Answered(p, 3)

\* a "max" withdraw rejected on an account that has debt and collateral
C6_Witness ==
  \E p \in Procs :
    /\ Done(p) /\ req[p].op = "withdraw" /\ ErrorIs(p, UnsafeMaxWithdrawText)
    /\ DecLess(DecZero, loc[p].account_data.totalCollateralBase)

\* the held amount the insufficient-balance error of p names: the text between
\* "You have " and the next " "
HeldText(p) ==
  LET v == result[p].value
      k == CHOOSE i \in 3 .. Len(v) : v[i] = " " /\ \A j \in 3 .. i - 1 : v[j] # " "
  IN  SubSeq(v, 3, k - 1)

\* the insufficient-balance error of p names the balance in human units (a
\* numeral denoting wallet_balance / 10**decimals), the asset and the
\* requested amount
NamesHeldAndRequested(p) ==
  LET v == result[p].value
      held == DecParse(HeldText(p))
      rest == <<" ", req[p].asset_id, ", but trying to ", req[p].op, " ">> \o req[p].amount
  IN  /\ held.ok
      /\ DecEq(held.val, DecDiv(DecFromInt(loc[p].wallet_balance),
                                DecFromInt(Pow10(loc[p].decimals))))
      /\ SubSeq(v, 3 + Len(HeldText(p)), Len(v)) = rest

\* C7: supply is rejected with the insufficient-balance error exactly when the
\* balance read from the ledger is strictly less than the requested atomic
\* amount (an equal balance passes), and the error names the held amount in
\* human units and the requested amount.
C7_SupplyBalanceCheck ==
  \A p \in Procs :
    req[p].op = "supply" /\ Len(calls[p]) >= 2 /\ Answered(p, 2) =>
      /\ IntLess(loc[p].wallet_balance, loc[p].amount_atomic)
           <=> (Done(p) /\ Len(calls[p]) = 2 /\ ErrorIs(p, InsufficientBalanceText))
      /\ ErrorIs(p, InsufficientBalanceText) => NamesHeldAndRequested(p)

\* the amount an approval (spender, amount) or an execute call of repay
\* (asset, amount, ...) carries
CarriedAmount(c) == c.args[2]

\* C8: repay reads the wallet balance only when the amount is not "max".
\* With another amount it is rejected with the insufficient-balance error
\* exactly when balance < atomic amount.  With "max" it makes no balance read:
\* the read after decimals is the account read, and the approval and the
\* execute carry 2**256 - 1.
C8_RepayBalanceCheck ==
  \A p \in Procs :
    req[p].op = "repay" =>
      IF req[p].amount = MaxStr
      THEN /\ \A i \in DOMAIN calls[p] : calls[p][i].fn # "balanceOf"
           /\ Len(calls[p]) >= 2 => calls[p][2].fn = "getUserAccountData"
           /\ \A i \in DOMAIN calls[p] :
                IsSend(calls[p][i]) => CarriedAmount(calls[p][i]) = Uint256Max
           /\ ~ErrorIs(p, InsufficientBalanceText)
      ELSE /\ Len(calls[p]) >= 2 => calls[p][2].fn = "balanceOf"
           /\ Len(calls[p]) >= 2 /\ Answered(p, 2) =>
                (IntLess(loc[p].wallet_balance, loc[p].amount_atomic)
                   <=> (Done(p) /\ Len(calls[p]) = 2 /\ ErrorIs(p, InsufficientBalanceText)))

\* a repay of "max" whose approval and execute were both sent
C8_Witness ==
  \E p \in Procs :
    /\ req[p].op = "repay" /\ req[p].amount = MaxStr
    /\ \E i, j \in DOMAIN calls[p] :
         /\ calls[p][i].kind = "send" /\ calls[p][i].fn = "approve" /\ calls[p][i].ok
         /\ IsExecuteSend(p, calls[p][j]) /\ calls[p][j].ok

\* the rough estimate of the amount p asks to borrow: the amount for every
\* symbol but USDC, the amount / 3000 for USDC
BorrowEstimate(p) ==
  IF SymbolOf(loc[p].asset_address) = "USDC"
  THEN DecDiv(DecParse(req[p].amount).val, Dec(FALSE, <<3, 0, 0, 0>>, 0))
  ELSE DecParse(req[p].amount).val

\* C9: borrow sends its execute transaction only if the collateral read from
\* the ledger is not zero and the rough estimate of the requested amount does
\* not exceed availableBorrows; zero collateral gives the no-collateral error,
\* an estimate above availableBorrows the insufficient-capacity error.
C9_BorrowPrechecks ==
  \A p \in Procs :
    req[p].op = "borrow" =>
      /\ SentAnything(p) =>
           /\ ~DecEq(loc[p].account_data.totalCollateralBase, DecZero)
           /\ ~DecLess(loc[p].account_data.availableBorrowsBase, BorrowEstimate(p))
      /\ Len(calls[p]) >= 2 /\ Answered(p, 2)
           /\ DecEq(loc[p].account_data.totalCollateralBase, DecZero)
           => Done(p) /\ Len(calls[p]) = 2 /\ ErrorIs(p, NoCollateralText)
      /\ Len(calls[p]) >= 3 /\ Answered(p, 3) /\ DecParse(req[p].amount).ok
           /\ DecLess(loc[p].account_data.availableBorrowsBase, BorrowEstimate(p))
           => Done(p) /\ Len(calls[p]) = 3 /\ ErrorIs(p, InsufficientCapacityText)

\* a borrow of USDC whose execute was sent, and whose amount itself is above
\* availableBorrows
C9_Witness ==
  \E p \in Procs :
    /\ req[p].op = "borrow" /\ req[p].asset_id = "usdc" /\ SentAnything(p)
    /\ DecLess(loc[p].account_data.availableBorrowsBase, DecParse(req[p].amount).val)

\* the execute receipt of p reported a status other than 1
ExecuteReverted(p) ==
  \E i \in DOMAIN calls[p] :
    /\ calls[p][i].kind = "wait" /\ calls[p][i].fn = req[p].op
    /\ calls[p][i].ok /\ calls[p][i].status # 1

\* C10: a borrow whose execute receipt reports a status other than 1 returns
\* the transaction-failed error with the borrowing-capacity hint, never a
\* success message, and makes no account read after the receipt.
C10_BorrowRevert ==
  \A p \in Procs :
    req[p].op = "borrow" /\ ExecuteReverted(p) =>
      /\ Done(p)
      /\ result[p] = Returned(<<"Error", ": Transaction failed.",
                                " The borrow may exceed your available borrowing capacity.">>)
      /\ calls[p][Len(calls[p])].kind = "wait"

\* a borrow that ended on a receipt of status 0
C10_Witness ==
  \E p \in Procs :
    /\ Done(p) /\ req[p].op = "borrow" /\ ExecuteReverted(p)
    /\ calls[p][Len(calls[p])].status = 0

PlusInfinity(x) == DecIsInf(x) /\ ~x.neg

HasDeltaLine(p) ==
  \E i \in 1 .. Len(result[p].value) :
    result[p].value[i] = "\nHealth factor changed from "

BothInfinite(p) == PlusInfinity(loc[p].current_health) /\ PlusInfinity(loc[p].new_health)

\* C11 (as stated): every successful supply, withdraw, borrow and repay carries
\* the health-factor delta line unless both the before and the after health
\* factor are +infinity, and leaves it out only then.
C11_DeltaOmittedIffBothInfinite ==
  \A p \in Procs :
    Done(p) /\ IsSuccess(p) => (HasDeltaLine(p) <=> ~BothInfinite(p))

\* C11 (amended): supply and withdraw leave the delta line out exactly when
\* both health factors are +infinity; borrow always carries it; repay leaves
\* it out exactly when the after health factor is +infinity.
C11_DeltaLinePerOperation ==
  \A p \in Procs :
    Done(p) /\ IsSuccess(p) =>
      CASE req[p].op \in {"supply", "withdraw"} -> (HasDeltaLine(p) <=> ~BothInfinite(p))
        [] req[p].op = "borrow" -> HasDeltaLine(p)
        [] req[p].op = "repay" -> (HasDeltaLine(p) <=> ~PlusInfinity(loc[p].new_health))
        [] OTHER -> FALSE

C11_Witness ==
  \E p \in Procs :
    /\ Done(p) /\ IsSuccess(p) /\ req[p].op = "repay"
    /\ ~PlusInfinity(loc[p].current_health) /\ PlusInfinity(loc[p].new_health)
    /\ ~HasDeltaLine(p)

\* the approval transaction of p was sent and its receipt reported status 1
ApprovalConfirmed(p) ==
  \E i, j \in DOMAIN calls[p] :
    /\ i < j
    /\ calls[p][i].kind = "send" /\ calls[p][i].fn = "approve" /\ calls[p][i].ok
    /\ calls[p][j].kind = "wait" /\ calls[p][j].fn = "approve"
    /\ calls[p][j].ok /\ calls[p][j].status = 1

SendsOf(p) == SelectSeq(calls[p], IsSend)

\* a finished supply with enough balance, a confirmed approval, a confirmed
\* execute and health factor +infinity before and after
EndToEndSupply(p) ==
  /\ Done(p) /\ req[p].op = "supply"
  /\ \E i \in DOMAIN calls[p] : calls[p][i].fn = "balanceOf" /\ calls[p][i].ok
  /\ ~IntLess(loc[p].wallet_balance, loc[p].amount_atomic)
  /\ ApprovalConfirmed(p) /\ ExecuteConfirmed(p)
  /\ BothInfinite(p)

\* the success message of a supply names the amount, the symbol and the hash
NamesAmountSymbolHash(p) ==
  LET v == result[p].value
      n == Len(req[p].amount)
  IN  /\ Len(v) >= n + 7
      /\ SubSeq(v, 3, n + 2) = req[p].amount
      /\ v[n + 4] = SymbolOf(loc[p].asset_address)
      /\ v[n + 6] = "Transaction hash: "
      /\ v[n + 7] = loc[p].tx_hash /\ loc[p].tx_hash \notin {"", loc[p].approve_tx_hash}

\* C12: a supply with a wallet balance of at least the requested atomic
\* amount, a successful approval, a successful execute and health factor
\* +infinity before and after sends exactly two transactions (the approval,
\* then the supply), returns a success message naming the amount, the token
\* symbol and the hash of the execute transaction, and the message has no
\* health-factor delta line.
C12_EndToEndSupply ==
  \A p \in Procs :
    EndToEndSupply(p) =>
      /\ Len(SendsOf(p)) = 2
      /\ SendsOf(p)[1].fn = "approve" /\ SendsOf(p)[2].fn = "supply"
      /\ IsSuccess(p)
      /\ NamesAmountSymbolHash(p)
      /\ ~HasDeltaLine(p)

\* the helper call of kind fn has returned
Called(fn) == calc.fn = fn /\ calc.out # <<>>

\* the band the stated rule gives a raw health factor: +infinity (raw not
\* positive) is NoDebt, hf >= 2 Healthy, 1.1 <= hf < 2 Caution, hf < 1.1 Danger
StatedBand(raw) ==
  IF ~IntLess(IntOf(0), raw) THEN "NoDebt"
  ELSE IF ~IntLess(raw, IntShift(IntOf(2), 18)) THEN "Healthy"
  ELSE IF ~IntLess(raw, IntShift(IntOf(11), 17)) THEN "Caution"
  ELSE "Danger"

\* C13: the risk classification of a health factor is total and follows the
\* bands at their boundaries: +infinity is NoDebt, hf >= 2 Healthy,
\* 1.1 <= hf < 2 Caution, hf < 1.1 Danger; exactly 2.0 is Healthy, 1.9999
\* Caution, exactly 1.1 (raw 1100000000000000000) Caution, 1.0999 Danger.
C13_RiskBands ==
  Called("risk_band") =>
    /\ calc.out[1] \in {"NoDebt", "Healthy", "Caution", "Danger"}
    /\ calc.out[1] = StatedBand(calc.atomic)

\* C14: the account reader maps a raw health factor that is not positive to
\* +infinity and a positive one to raw / 10^18 (raw 0 gives +infinity, raw
\* 500000000000000000 gives 0.5); a raw factor that is not positive is never
\* turned into an error or into the number 0.
C14_HealthFactorInfinityRule ==
  Called("get_user_account_data") =>
    LET hf == calc.out[1].healthFactor
    IN  /\ IntLess(IntOf(0), calc.atomic) =>
             /\ ~DecIsInf(hf)
             /\ DecEq(hf, Dec(FALSE, calc.atomic.mag, -18))
        /\ ~IntLess(IntOf(0), calc.atomic) => PlusInfinity(hf)
        /\ calc.atomic = IntShift(IntOf(5), 17) => DecEq(hf, Dec(FALSE, <<5>>, -1))

C14_Witness ==
  /\ Called("get_user_account_data")
  /\ calc.atomic = IntOf(0)
  /\ PlusInfinity(calc.out[1].healthFactor)

\* s is a plain numeral without sign: digits, or digits "." digits
PlainNumeral(s) ==
  LET dot == IndexOfDot(s)
  IN  /\ DotCount(s) <= 1
      /\ IF dot = 0 THEN AllDigits(s)
         ELSE AllDigits(SubSeq(s, 1, dot - 1)) /\ AllDigits(SubSeq(s, dot + 1, Len(s)))

\* floor(value(s) * 10^d) of a plain numeral s, as a digit sequence: the
\* digits of s without the point, moved d - (number of fraction digits) places
FloorScaled(s, d) ==
  LET dot == IndexOfDot(s)
      all == IF dot = 0 THEN DigitsOf(s)
             ELSE DigitsOf(SubSeq(s, 1, dot - 1) \o SubSeq(s, dot + 1, Len(s)))
      n == IF dot = 0 THEN 0 ELSE Len(s) - dot
  IN  IF d >= n THEN NatShift(StripLeadingZeros(all), d - n)
      ELSE StripLeadingZeros(SubSeq(all, 1, Len(all) - (n - d)))

\* C15: format_amount_with_decimals truncates and never rounds: for every
\* plain numeral without sign and every decimals value d >= 0, d = 0 and d
\* below the number of fraction digits included, the call returns
\* floor(value * 10^d) and does not fail.
C15_TruncatesNeverFails ==
  Called("format_amount_with_decimals") /\ PlainNumeral(calc.amount) =>
    /\ calc.out[1].ok
    /\ calc.out[1].val = MkInt(FALSE, FloorScaled(calc.amount, calc.decimals))

\* a / 10^d has an exact Decimal: a has no more digits than the precision
ExactlyRepresentable(a) == ~a.neg /\ Len(a.mag) <= DecimalPrec

\* C16: for every atomic amount a >= 0 and every decimals value d for which
\* a / 10^d is exactly representable,
\* format_amount_with_decimals(format_amount_from_decimals(a, d), d) = a,
\* small amounts (a = 150000000, d = 18) and amounts rendered with trailing
\* zeros stripped (a = 1500000000000000000, d = 18) included.
C16_RoundTrip ==
  Called("round_trip") /\ ExactlyRepresentable(calc.atomic) =>
    calc.out[1].ok /\ calc.out[1].val = calc.atomic

\* s is a numeral that is not negative, in plain or scientific notation:
\* ["+"] (digits ["." [digits]] | "." digits) [("e" | "E") [sign] digits]
ValidNumeral(s) ==
  LET body == IF s # <<>> /\ Head(s) = "+" THEN Tail(s) ELSE s
      ie == IndexOfE(body)
      mant == IF ie = 0 THEN body ELSE SubSeq(body, 1, ie - 1)
      expo == IF ie = 0 THEN <<"0">> ELSE SubSeq(body, ie + 1, Len(body))
      digits == SelectSeq(mant, LAMBDA c : c # ".")
  IN  /\ DotCount(mant) <= 1
      /\ AllDigits(digits)
      /\ IF expo # <<>> /\ Head(expo) \in {"+", "-"} THEN AllDigits(Tail(expo))
         ELSE AllDigits(expo)

\* C17: format_amount_with_decimals fails with the invalid-amount-format
\* error for every string that is neither "max" nor a valid numeral that is
\* not negative, in plain or scientific notation, negative numerals and malformed
\* scientific notation included; it never returns a negative integer and
\* never fails with another kind of error.
C17_InvalidAmountsRejected ==
  Called("format_amount_with_decimals") =>
    LET o == calc.out[1]
    IN  /\ calc.amount # MaxStr /\ ~ValidNumeral(calc.amount) =>
             ~o.ok /\ o.exc = "ValueError" /\ Head(o.txt) = "Invalid amount format: "
        /\ o.ok => ~o.val.neg
        /\ ~o.ok => o.exc = "ValueError" /\ Head(o.txt) = "Invalid amount format: "

RECURSIVE NatTimes(_, _)
\* a * b, splitting the digits of b in two halves
NatTimes(a, b) ==
  IF Len(b) = 1 THEN NatMulDigit(a, b[1])
  ELSE NatAdd(NatShift(NatTimes(a, SubSeq(b, 1, Len(b) \div 2)), Len(b) - Len(b) \div 2),
              NatTimes(a, SubSeq(b, Len(b) \div 2 + 1, Len(b))))

Squared(x) == NatTimes(x, x)

\* 2^256 = (((2^16)^2)^2)^2)^2
TwoTo256 == Squared(Squared(Squared(Squared(NatFromInt(2 ^ 16)))))

\* C18: format_amount_with_decimals("max", d) equals 2^256 - 1 for every
\* decimals value d.
C18_MaxIsUint256Max ==
  Called("format_amount_with_decimals") /\ calc.amount = MaxStr =>
    /\ calc.out[1].ok
    /\ ~calc.out[1].val.neg
    /\ NatAdd(calc.out[1].val.mag, <<1>>) = TwoTo256

C18_Witness ==
  /\ Called("format_amount_with_decimals") /\ calc.amount = MaxStr /\ calc.decimals = 18
  /\ calc.out[1].ok /\ Len(calc.out[1].val.mag) = 78

\* the characters of text appear in v, one after the other
Shows(v, text) ==
  \E i \in 1 .. Len(v) - Len(text) + 1 : SubSeq(v, i, i + Len(text) - 1) = text

\* C19: format_amount_from_decimals is never called with 2^256 - 1 (its only
\* calls are those of the insufficient-balance errors, on the balance read);
\* no result shows that number; a "max" withdraw is displayed as
\* "all available" and a "max" repay as "all outstanding".
C19_MaxNeverDisplayed ==
  \A p \in Procs :
    /\ ErrorIs(p, InsufficientBalanceText) => loc[p].wallet_balance # Uint256Max
    /\ ~Shows(result[p].value, NatChars(Uint256Max.mag))
    /\ Done(p) /\ IsSuccess(p) /\ req[p].amount = MaxStr =>
         /\ req[p].op = "withdraw" => result[p].value[3] = "all available"
         /\ req[p].op = "repay" => result[p].value[3] = "all outstanding"

C19_Witness ==
  \E p \in Procs :
    /\ Done(p) /\ IsSuccess(p) /\ req[p].amount = MaxStr /\ req[p].op = "repay"
    /\ result[p].value[3] = "all outstanding"

\* the part of a rendering before its exponent
Mantissa(s) == IF IndexOfE(s) = 0 THEN s ELSE SubSeq(s, 1, IndexOfE(s) - 1)

\* C20: format_amount_from_decimals renders 0 as "0" and every other amount
\* a with decimals d as a decimal string whose value is exactly a / 10^d,
\* without trailing fraction zeros and without a trailing point (a =
\* 150000000, d = 18 gives a string denoting 0.00000000015).
C20_FromAtomicRendering ==
  Called("format_amount_from_decimals") /\ ExactlyRepresentable(calc.atomic) =>
    LET s == calc.out[1]
    IN  IF calc.atomic = IntOf(0) THEN s = <<"0">>
        ELSE /\ DecParse(s).ok
             /\ DecEq(DecParse(s).val, Dec(FALSE, calc.atomic.mag, 0 - calc.decimals))
             /\ IndexOfDot(Mantissa(s)) # 0 =>
                  Mantissa(s)[Len(Mantissa(s))] \notin {"0", "."}

\* the string s is one of the pieces of the result of p
HasPiece(p, s) == \E i \in 1 .. Len(result[p].value) : result[p].value[i] = s

LiquidationWarning == "- **WARNING**: Your position is at risk of liquidation."

CollateralNote == "- You have supplied collateral but have no borrows."

CanBorrowNote == "- You can safely borrow up to "

\* the Danger band as stated: finite and strictly below 1.1
InDangerBand(hf) == ~DecIsInf(hf) /\ DecLess(hf, Dec(FALSE, <<1, 1>>, -1))

\* the recommendation the stated precedence selects for the account data d
StatedRecommendation(d) ==
  IF InDangerBand(d.healthFactor) THEN {LiquidationWarning}
  ELSE IF DecGreater(d.totalCollateralBase, DecZero) /\ DecEq(d.totalDebtBase, DecZero)
  THEN {CollateralNote}
  ELSE IF DecGreater(d.availableBorrowsBase, DecZero) THEN {CanBorrowNote}
  ELSE {}

\* C21: the portfolio report chooses its recommendation by strict precedence:
\* the liquidation warning when the health factor is in the Danger band,
\* otherwise the collateral-but-no-debt note when collateral > 0 and debt = 0,
\* otherwise the can-still-borrow note when availableBorrows > 0, otherwise
\* none; at most one recommendation appears.
C21_RecommendationPrecedence ==
  \A p \in Procs :
    Done(p) /\ IsReport(p) =>
      {s \in {LiquidationWarning, CollateralNote, CanBorrowNote} : HasPiece(p, s)}
        = StatedRecommendation(loc[p].account_data)

\* the asset has an address on the network, and the network has a pool
SupportedPair(network, asset_id) ==
  \/ network = "base-mainnet" /\ asset_id \in {"weth", "usdc", "cbeth", "wsteth"}
  \/ network = "base-sepolia" /\ asset_id \in {"weth", "usdc"}

\* C22: when the asset is not supported on the current network, or the
\* network has no pool address, each of supply, withdraw, borrow and repay
\* returns an error before any ledger read or transaction; no other address
\* is used in its place.
C22_UnsupportedFailsBeforeLedger ==
  \A p \in Procs :
    pc[p] # "idle" /\ req[p].op \in MoneyOps
      /\ ~SupportedPair(req[p].network, req[p].asset_id) =>
        Done(p) /\ IsError(p) /\ calls[p] = <<>>

C22_Witness ==
  \E p \in Procs :
    /\ Done(p) /\ IsError(p) /\ calls[p] = <<>>
    /\ req[p].op = "supply" /\ req[p].network = "base-sepolia" /\ req[p].asset_id = "cbeth"

\* C23: supports_network returns true exactly when the protocol family of the
\* network is "evm" and its network id is base-mainnet or base-sepolia; it
\* returns true for base-sepolia on evm and false for the evm network with id
\* "ethereum".
C23_SupportsNetwork ==
  Called("supports_network") =>
    LET n == calc.network
        answer == calc.out[1]
    IN  /\ answer \in BOOLEAN
        /\ answer = TRUE <=>
             /\ n.protocol_family = "evm"
             /\ n.network_id = "base-mainnet" \/ n.network_id = "base-sepolia"
        /\ n = [protocol_family |-> "evm", network_id |-> "base-sepolia"] => answer = TRUE
        /\ n = [protocol_family |-> "evm", network_id |-> "ethereum"] => answer = FALSE

C23_Witness ==
  /\ Called("supports_network")
  /\ calc.network = [protocol_family |-> "evm", network_id |-> "ethereum"]
  /\ calc.out[1] = FALSE

TransactionFailedText == ": Transaction failed."

\* C24: an approval-failed or transaction-reverted error returned after the
\* send of that transaction gave a transaction hash contains that hash.
C24_ErrorCarriesReference ==
  \A p \in Procs :
    Done(p) =>
      /\ ErrorIs(p, TransactionFailedText) /\ loc[p].tx_hash # "" =>
           HasPiece(p, loc[p].tx_hash)
      /\ ErrorIs(p, ApprovalErrorText) /\ loc[p].approve_tx_hash # "" =>
           HasPiece(p, loc[p].approve_tx_hash)

\* call number i of p is an account read made before any transaction was sent
IsBeforeRead(p, i) ==
  /\ calls[p][i].fn = "getUserAccountData"
  /\ \A j \in 1 .. i - 1 : calls[p][j].kind = "read"

\* C25: a failure of the account read before the transaction is tolerated in
\* supply and repay (current health factor +infinity, the approval is the
\* next step: its transaction is sent unless its encoding is refused) and is
\* a hard failure in withdraw and borrow (the account-check
\* error is returned and no transaction is sent).
C25_BeforeReadFailure ==
  \A p \in Procs :
    \A i \in DOMAIN calls[p] :
      IsBeforeRead(p, i) /\ ~calls[p][i].ok =>
        /\ req[p].op \in {"supply", "repay"} =>
             /\ PlusInfinity(loc[p].current_health)
             /\ IF i = Len(calls[p])
                THEN pc[p] = "approve_send" \/ (Done(p) /\ ErrorIs(p, ApprovalErrorText))
                ELSE calls[p][i + 1].kind = "send" /\ calls[p][i + 1].fn = "approve"
        /\ req[p].op \in {"withdraw", "borrow"} =>
             /\ i = Len(calls[p]) /\ Done(p)
             /\ ErrorIs(p, " checking account data: ")
             /\ ~SentAnything(p)

\* a repay that was confirmed although its account read before the
\* transaction failed
C25_Witness ==
  \E p \in Procs :
    /\ req[p].op = "repay" /\ Done(p) /\ IsSuccess(p) /\ ExecuteConfirmed(p)
    /\ \E i \in DOMAIN calls[p] : IsBeforeRead(p, i) /\ ~calls[p][i].ok

\* the account read made after the confirmed execute transaction of p raised
AfterReadFailed(p) ==
  \E i, j \in DOMAIN calls[p] :
    /\ j < i
    /\ calls[p][j].kind = "wait" /\ calls[p][j].fn = req[p].op
    /\ calls[p][j].ok /\ calls[p][j].status = 1
    /\ calls[p][i].fn = "getUserAccountData" /\ ~calls[p][i].ok

\* C26: when the execute transaction was confirmed and the account read after
\* it fails, supply, repay and borrow still return a success message, with the
\* health factor before the transaction as the one after it in supply and
\* repay and with +infinity in borrow.
C26_AfterReadFailure ==
  \A p \in Procs :
    Done(p) /\ req[p].op \in {"supply", "repay", "borrow"}
      /\ ExecuteConfirmed(p) /\ AfterReadFailed(p) =>
        /\ IsSuccess(p)
        /\ IF req[p].op = "borrow" THEN PlusInfinity(loc[p].new_health)
           ELSE loc[p].new_health = loc[p].current_health

DangerWarningText == "\n(warning sign) WARNING: Your health factor is now "

\* C27: a successful borrow carries the liquidation warning exactly when the
\* health factor after the transaction is finite and strictly below 1.1, with
\* the factor printed to two decimal places; with a factor of 1.1 or more, or
\* +infinity, it carries no warning.
C27_BorrowWarning ==
  \A p \in Procs :
    Done(p) /\ IsSuccess(p) /\ req[p].op = "borrow" =>
      /\ HasPiece(p, DangerWarningText) <=> InDangerBand(loc[p].new_health)
      /\ HasPiece(p, DangerWarningText) =>
           Shows(result[p].value,
                 <<DangerWarningText>> \o DecFormatF(loc[p].new_health, 2)
                   \o <<", which is dangerously low.">>)

\* x is the finite number raw / 10^e
ScaledFrom(x, raw, e) == ~DecIsInf(x) /\ ~raw.neg /\ DecEq(x, Dec(FALSE, raw.mag, 0 - e))

\* C28: every call of get_user_account_data makes exactly one ledger read and
\* builds all its fields from the six values of that read, in the order
\* collateral, debt, available borrows, liquidation threshold, ltv, raw health
\* factor; nothing is kept from an earlier call, so a call made after the
\* ledger changed returns the changed values.
C28_ReaderReadsOnce ==
  calc.fn = "account_reader" =>
    /\ calc.reads = Len(calc.out)
    /\ \A k \in DOMAIN calc.out :
         LET raw == calc.out[k].raw
             d == calc.out[k].data
         IN  /\ ScaledFrom(d.totalCollateralBase, raw[1], 18)
             /\ ScaledFrom(d.totalDebtBase, raw[2], 18)
             /\ ScaledFrom(d.availableBorrowsBase, raw[3], 18)
             /\ ScaledFrom(d.currentLiquidationThreshold, raw[4], 4)
             /\ ScaledFrom(d.ltv, raw[5], 4)
             /\ IF IntLess(IntOf(0), raw[6]) THEN ScaledFrom(d.healthFactor, raw[6], 18)
                ELSE PlusInfinity(d.healthFactor)

C28_Witness ==
  /\ calc.fn = "account_reader" /\ Len(calc.out) = 2
  /\ calc.out[1].raw # calc.out[2].raw
  /\ ~DecEq(calc.out[1].data.totalDebtBase, calc.out[2].data.totalDebtBase)

\* C29: once the execute transaction has been sent successfully, no result is
\* returned before the wait for the receipt of that transaction has been
\* made: the wait is the next ledger call, and until it is made the
\* invocation has no result.
C29_WaitFollowsSend ==
  \A p \in Procs :
    \A i \in DOMAIN calls[p] :
      IsExecuteSend(p, calls[p][i]) /\ calls[p][i].ok =>
        IF i = Len(calls[p])
        THEN pc[p] = "execute_wait" /\ result[p] = NoResult
        ELSE /\ calls[p][i + 1].kind = "wait" /\ calls[p][i + 1].fn = req[p].op
             /\ calls[p][i + 1].args = <<loc[p].tx_hash>>

\* an error returned after the wait for the receipt of a sent borrow raised
C29_Witness ==
  \E p \in Procs :
    /\ req[p].op = "borrow" /\ Done(p) /\ IsError(p) /\ Len(calls[p]) >= 2
    /\ LET n == Len(calls[p])
       IN  /\ IsExecuteSend(p, calls[p][n - 1]) /\ calls[p][n - 1].ok
           /\ calls[p][n].kind = "wait" /\ ~calls[p][n].ok

WasGiven(f) == f \in DOMAIN calc.given

\* C30: the protocol call takes the wallet's own address when on_behalf_of
\* (supply, borrow, repay) or to (withdraw) is not given (absent, None or
\* empty), referral code 0 when none is given and interest-rate mode 2 when
\* none is given; a value that is given is passed as it is.
C30_ExecuteDefaults ==
  Called("execute_args") =>
    LET g == calc.given
        a == calc.out[1]
        address == CASE g.op \in {"supply", "withdraw"} -> a[3]
                     [] g.op = "borrow" -> a[5]
                     [] g.op = "repay" -> a[4]
    IN  /\ address = IF WasGiven("beneficiary") /\ g.beneficiary \notin {None, ""}
                     THEN g.beneficiary ELSE WalletAddress
        /\ g.op \in {"supply", "borrow"} =>
             a[4] = IF WasGiven("referral_code") THEN g.referral_code ELSE 0
        /\ g.op \in {"borrow", "repay"} =>
             a[3] = IF WasGiven("interest_rate_mode") THEN g.interest_rate_mode ELSE 2

\* a borrow called with the asset and the amount only
C30_Witness ==
  /\ Called("execute_args")
  /\ calc.given.op = "borrow" /\ DOMAIN calc.given \cap OptionalFields = {}
  /\ calc.out[1] = <<"0x4200000000000000000000000000000000000006", IntOf(1), 2, 0,
                     WalletAddress>>

AccountReadsOf(p) ==
  Cardinality({i \in DOMAIN calls[p] : calls[p][i].fn = "getUserAccountData"})

C33_ConfirmedExecuteIsSuccess ==
  \A p \in Procs :
    Done(p) /\ req[p].op \in MoneyOps /\ ExecuteConfirmed(p) => IsSuccess(p)

\* the receipt of the approval of p reported a status other than 1
ApprovalReverted(p) ==
  \E i \in DOMAIN calls[p] :
    /\ calls[p][i].kind = "wait" /\ calls[p][i].fn = "approve"
    /\ calls[p][i].ok /\ calls[p][i].status # 1

\* C34: in supply and repay an approval whose receipt reports a status other
\* than 1 is an approval failure: the execute transaction is sent only after
\* an approval receipt with status 1.
C34_ExecuteOnlyAfterConfirmedApproval ==
  \A p \in Procs :
    req[p].op \in {"supply", "repay"} =>
      /\ (\E i \in DOMAIN calls[p] : IsExecuteSend(p, calls[p][i])) => ApprovalConfirmed(p)
      /\ ApprovalReverted(p) /\ Done(p) => ErrorIs(p, ApprovalErrorText)

\* call c is a transaction that carries 2^256 - 1 as its amount
CarriesMax(c) == c.kind = "send" /\ c.args[2] = Uint256Max

BalanceAnswered(p) ==
  \E i \in DOMAIN calls[p] : calls[p][i].fn = "balanceOf" /\ calls[p][i].ok

\* C37: a supply of "max" is rejected with the insufficient-balance error for
\* every wallet balance below 2^256 - 1 and a borrow of "max" always ends in
\* an error, both without sending a transaction; apart from a supply by a
\* wallet whose balance is 2^256 - 1, a transaction carries 2^256 - 1 only in
\* withdraw and repay.
C37_MaxOnlyInWithdrawAndRepay ==
  \A p \in Procs :
    /\ pc[p] # "idle" /\ req[p].op = "supply" /\ req[p].amount = MaxStr
         /\ ~(BalanceAnswered(p) /\ loc[p].wallet_balance = Uint256Max) =>
           /\ ~SentAnything(p)
           /\ Done(p) => IsError(p)
           /\ Done(p) /\ BalanceAnswered(p) => ErrorIs(p, InsufficientBalanceText)
    /\ pc[p] # "idle" /\ req[p].op = "borrow" /\ req[p].amount = MaxStr =>
         ~SentAnything(p) /\ (Done(p) => IsError(p))
    /\ \A i \in DOMAIN calls[p] :
         CarriesMax(calls[p][i]) =>
           \/ req[p].op \in {"withdraw", "repay"}
           \/ req[p].op = "supply" /\ loc[p].wallet_balance = Uint256Max

C37_Witness ==
  \E p \in Procs :
    /\ Done(p) /\ req[p].op = "supply" /\ req[p].amount = MaxStr
    /\ BalanceAnswered(p) /\ loc[p].wallet_balance = IntShift(IntOf(2), 18)
    /\ ErrorIs(p, InsufficientBalanceText) /\ ~SentAnything(p)

RepaidAllText == "\nYou have repaid all your debt and have no active borrows."

\* the account read made after the confirmed execute transaction of p
\* returned a raw health factor that is not positive
AfterReadShowsNoDebt(p) ==
  /\ \E i, j \in DOMAIN calls[p] :
       /\ j < i
       /\ calls[p][j].kind = "wait" /\ calls[p][j].fn = req[p].op /\ calls[p][j].ok
       /\ calls[p][i].fn = "getUserAccountData" /\ calls[p][i].ok
  /\ PlusInfinity(loc[p].new_health)

\* C38: a successful repay says that all debt is repaid only if the account
\* read made after the execute transaction returned a raw health factor that
\* is not positive; it does not say so when that read failed.
C38_RepaidAllOnlyIfRead ==
  \A p \in Procs :
    Done(p) /\ IsSuccess(p) /\ req[p].op = "repay" /\ HasPiece(p, RepaidAllText) =>
      AfterReadShowsNoDebt(p)

TransactionsOf(p, fns) ==
  Cardinality({i \in DOMAIN calls[p] : calls[p][i].kind = "send" /\ calls[p][i].fn \in fns})

\* the most ledger interactions an invocation makes: the decimals, balance
\* and account reads, two sends with their waits, the account read after and
\* the symbol read
MaxInteractions(op) ==
  CASE op \in {"supply", "repay"} -> 9
    [] op \in {"withdraw", "borrow"} -> 7
    [] op = "get_portfolio" -> 1

Running(p) == pc[p] \notin {"idle", "done"}

\* the place of step in the list of steps of the invocation of p; "done"
\* comes after the last
StepIndex(p, step) ==
  LET f == Flow(req[p].op, req[p].amount)
  IN  IF step = "done" THEN Len(f) + 1 ELSE CHOOSE k \in 1 .. Len(f) : f[k] = step

\* C39: every invocation ends after a bounded number of ledger interactions
\* when each ledger call returns or fails: it attempts at most one approval
\* (none outside supply and repay) and at most one execute transaction (none
\* in get_portfolio); every step of a running invocation is exactly one more
\* ledger call and moves it to a later step of its list or to its end, so no
\* step is retried or looped.
C39_BoundedTermination ==
  /\ [](\A p \in Procs :
          pc[p] # "idle" =>
            /\ Len(calls[p]) <= MaxInteractions(req[p].op)
            /\ TransactionsOf(p, {"approve"})
                 <= (IF req[p].op \in {"supply", "repay"} THEN 1 ELSE 0)
            /\ TransactionsOf(p, MoneyOps) <= (IF req[p].op = "get_portfolio" THEN 0 ELSE 1))
  /\ [][\A p \in Procs :
          Running(p) /\ (pc'[p] # pc[p] \/ calls'[p] # calls[p]) =>
            /\ req'[p] = req[p]
            /\ Len(calls'[p]) = Len(calls[p]) + 1
            /\ StepIndex(p, pc'[p]) > StepIndex(p, pc[p])]_vars

C39_Witness ==
  \E p \in Procs :
    /\ Done(p) /\ req[p].op = "repay" /\ Len(calls[p]) = 9
    /\ TransactionsOf(p, {"approve"}) = 1 /\ TransactionsOf(p, MoneyOps) = 1

\* C36: when supply or repay invocations for the same wallet and asset
\* interleave on a ledger where an approval overwrites the allowance, every
\* invocation submits its execute transaction while the allowance of the
\* pool is at least the invocation's own atomic amount.
C36_ExecuteWithinAllowance ==
  [][\A p \in Procs :
       /\ req[p].op \in {"supply", "repay"}
       /\ pc[p] = "execute_send"
       /\ pc'[p] = "execute_wait"
       => ~IntLess(Allowance(ledger.txs), loc[p].amount_atomic)]_vars

\* the transactions on the ledger that the invocations of p put there
TxsBy(p) == SelectSeq(ledger.txs, LAMBDA t : t.by = p)

\* the receipts the current invocation of p was handed
ReceiptsOf(p) == SelectSeq(calls[p], LAMBDA c : c.kind = "wait" /\ c.ok)

\* C32: the provider keeps no state between invocations and every
\* invocation sends its own transactions: an idle provider holds nothing of
\* an earlier invocation; every supply or repay transaction a caller has on
\* the ledger directly follows that caller's own approval of the same amount
\* (an invocation never reuses or passes over an earlier approval), the
\* receipts of an invocation are the caller's latest transactions on the
\* ledger, and an invocation whose execute is confirmed has made its own
\* approval (supply, repay) and its own execute transaction.
C32_FreshTransactionsEachInvocation ==
  \A p \in Procs :
    LET own == TxsBy(p)
        got == ReceiptsOf(p)
    IN  /\ pc[p] = "idle" =>
             /\ req[p] = NoRequest /\ loc[p] = NoLocals
             /\ calls[p] = <<>> /\ result[p] = NoResult
        /\ \A k \in DOMAIN own :
             own[k].fn \in {"supply", "repay"} =>
               /\ k > 1
               /\ own[k - 1].fn = "approve"
               /\ own[k - 1].amount = own[k].amount
        /\ Len(got) <= Len(own)
        /\ \A i \in DOMAIN got :
             /\ own[Len(own) - Len(got) + i].fn = got[i].fn
             /\ own[Len(own) - Len(got) + i].status = got[i].status
        /\ pc[p] # "idle" /\ ExecuteConfirmed(p) =>
             /\ TransactionsOf(p, {req[p].op}) = 1
             /\ TransactionsOf(p, {"approve"})
                  = (IF req[p].op \in {"supply", "repay"} THEN 1 ELSE 0)
             /\ Len(got) = (IF req[p].op \in {"supply", "repay"} THEN 2 ELSE 1)

\* the same supply invoked twice in sequence by one caller, both confirmed:
\* four transactions on the ledger, an approval and a supply each time
C32_Witness ==
  /\ Done("a") /\ IsSuccess("a") /\ req["a"].op = "supply" /\ ExecuteConfirmed("a")
  /\ Len(ledger.txs) = 4
  /\ \A k \in 1 .. 4 :
       /\ ledger.txs[k].by = "a" /\ ledger.txs[k].status = 1
       /\ ledger.txs[k].amount = loc["a"].amount_atomic
       /\ ledger.txs[k].fn = (IF k \in {1, 3} THEN "approve" ELSE "supply")

\* the transactions of the log whose receipt was returned, in order, each
\* with the amount its send carried
RECURSIVE AppliedIn(_, _, _)
AppliedIn(p, log, n) ==
  IF n < 2 THEN <<>>
  ELSE LET before == AppliedIn(p, log, n - 1)
       IN  IF log[n].kind = "wait" /\ log[n].ok /\ log[n - 1].kind = "send"
           THEN Append(before, [fn |-> log[n].fn, amount |-> log[n - 1].args[2],
                                by |-> p, status |-> log[n].status])
           ELSE before

\* the execute transaction of p was sent but no receipt of it was returned
ExecuteReceiptMissing(p) ==
  \E i \in DOMAIN calls[p] :
    /\ IsExecuteSend(p, calls[p][i]) /\ calls[p][i].ok
    /\ ~\E j \in DOMAIN calls[p] :
          calls[p][j].kind = "wait" /\ calls[p][j].fn = req[p].op /\ calls[p][j].ok

====
